---- MODULE Spec2Model ----
(***************************************************************************)
(* A model of the PoIT capture pipeline of 1_poit/ext_bolag:               *)
(*   injected.js   - the Hook Layer (fetch / XHR wrappers, bridgeSave)     *)
(*   content.js    - the Bridge listener and the Page Orchestrator         *)
(*   background.js - the Relay / Sanitizer                                 *)
(* JavaScript strings are sequences of one-character strings, so that the  *)
(* regular expressions and the includes / toLowerCase / replace calls of   *)
(* the source are computed character by character.                         *)
(***************************************************************************)
EXTENDS Integers, Sequences, FiniteSets, Bags, TLC

VARIABLES
    \* ---- content.js, one tab, one content-script lifetime
    href,                   \* window.location.href (a name of UrlText)
    IS_KUNGORELSE,          \* content.js:57
    IS_ENSKILD,             \* content.js:58
    lastUrl,                \* content.js:226
    enskildHandled,         \* document.body.dataset.enskildHandled === "true"
    capturedKungorelseIds,  \* content.js:62
    pendingCaptures,        \* content.js:63
    timers,                 \* outstanding setTimeout callbacks / await continuations, in the order started
    loadHref,               \* content.js:56, window.location.href when the script ran
    prevHref,               \* history: the href the tab showed before the current one
    navCount,               \* history: how often href has changed since the script ran
    forwarded,              \* history: KV_SAVE_KUNGORELSE payloads given to chrome.runtime.sendMessage
    lastCheck,              \* console: what the last capture check since the last navigation event
                            \* (a change of href, or the poller finding one) logged, for which id
    aliasClicks,            \* history: the link.click() calls made on an alias page since href last changed
    duplicateSkips,         \* console: the ids logged as "Skipping duplicate capture" since href last changed
    rejectedHere,           \* history: the ids capture checks rejected since the last navigation event
    \* ---- background.js
    relayInbox,             \* messages delivered to chrome.runtime.onMessage, not yet handled
    httpRequests,           \* the fetch calls the Relay has issued, in order
    bgBlocked,              \* console: the urls logged as "BLOCKED in background.js"
    bgFailed,               \* console: how many "Failed to post" errors were logged
    \* ---- injected.js, in the page of the tab
    xhr,                    \* one XMLHttpRequest object of the page: __kv_url, listeners, state
    call,                   \* the latest fetch() or xhr.send() call of the page
    bridge,                 \* window messages posted, not yet delivered to content.js
    posted,                 \* history: the payloads bridgeSave has posted for the latest call
    lastEvent,              \* history: "ignored" when the listener of content.js sent nothing for the
                            \* message event it last ran for, since the page last made a call or
                            \* queued a message
    \* ---- background.js, sanitizeCompanyList called on a list
    sanItems,               \* the argument items
    sanCleaned,             \* the value returned for items
    sanAgain,               \* the value returned for the returned value
    \* ---- content.js, the content script of a second tab
    peer                    \* its href, capturedKungorelseIds, pendingCaptures, timers, and
                            \* history: the records it has forwarded

orchVars  == <<href, IS_KUNGORELSE, IS_ENSKILD, lastUrl, enskildHandled,
               capturedKungorelseIds, pendingCaptures, timers,
               loadHref, prevHref, navCount, forwarded, lastCheck,
               aliasClicks, rejectedHere, duplicateSkips>>
relayVars == <<relayInbox, httpRequests, bgBlocked, bgFailed>>
hookVars  == <<xhr, call, bridge, posted, lastEvent>>
sanVars   == <<sanItems, sanCleaned, sanAgain>>
peerVars  == <<peer>>
vars      == <<orchVars, relayVars, hookVars, sanVars, peerVars>>

----------------------------------------------------------------------------
(* Bounds of the exploration *)

\* navigations (href changes) after the content script was loaded
MaxNav == 2

----------------------------------------------------------------------------
(* JavaScript strings *)

UpperLetters == <<"A","B","C","D","E","F","G","H","I","J","K","L","M","N","O","P","Q","R","S","T","U","V","W","X","Y","Z","Å","Ä","Ö">>
LowerLetters == <<"a","b","c","d","e","f","g","h","i","j","k","l","m","n","o","p","q","r","s","t","u","v","w","x","y","z","å","ä","ö">>
Digits       == {"0","1","2","3","4","5","6","7","8","9"}

IsUpper(c) == \E i \in 1..Len(UpperLetters) : UpperLetters[i] = c
IsLower(c) == \E i \in 1..Len(LowerLetters) : LowerLetters[i] = c

toLowerCaseChar(c) ==
    IF IsUpper(c)
    THEN LowerLetters[CHOOSE i \in 1..Len(UpperLetters) : UpperLetters[i] = c]
    ELSE c

toUpperCaseChar(c) ==
    IF IsLower(c)
    THEN UpperLetters[CHOOSE i \in 1..Len(LowerLetters) : LowerLetters[i] = c]
    ELSE c

\* String.prototype.toLowerCase / toUpperCase
toLowerCase(s) == [i \in 1..Len(s) |-> toLowerCaseChar(s[i])]
toUpperCase(s) == [i \in 1..Len(s) |-> toUpperCaseChar(s[i])]

\* p occurs in s at position i
occursAt(s, p, i) ==
    /\ i >= 1
    /\ i + Len(p) - 1 <= Len(s)
    /\ \A j \in 1..Len(p) : s[i + j - 1] = p[j]

\* String.prototype.includes / startsWith
includes(s, p)   == \E i \in 1..(Len(s) + 1) : occursAt(s, p, i)
startsWith(s, p) == occursAt(s, p, 1)

\* String.prototype.replace(c, d) with a string pattern: the FIRST occurrence only
replaceFirst(s, c, d) ==
    IF \E i \in 1..Len(s) : s[i] = c
    THEN LET k == CHOOSE i \in 1..Len(s) : s[i] = c /\ \A j \in 1..(i - 1) : s[j] # c
         IN  [i \in 1..Len(s) |-> IF i = k THEN d ELSE s[i]]
    ELSE s

----------------------------------------------------------------------------
(* The URLs the tab is driven through *)

S_ORIGIN     == <<"h","t","t","p","s",":","/","/","p","o","i","t",".","b","o","l","a","g","s","v","e","r","k","e","t",".","s","e">>
S_APP_KUNG   == <<"/","p","o","i","t","-","a","p","p","/","k","u","n","g","o","r","e","l","s","e","/">>
S_APP_ENSK   == <<"/","p","o","i","t","-","a","p","p","/","e","n","s","k","i","l","d","/">>
S_APP_SOK    == <<"/","p","o","i","t","-","a","p","p","/","s","o","k">>
S_K100       == <<"K","1","0","0","-","2","5">>
S_K200       == <<"K","2","0","0","-","2","5">>
S_ENSKILD_X  == <<"/","e","n","s","k","i","l","d","/","x">>
S_K100_LC    == <<"k","1","0","0","-","2","5">>
S_REST_SOK      == <<"/","p","o","i","t","/","r","e","s","t","/","S","o","k","K","u","n","g","o","r","e","l","s","e">>
S_REST_SOK_Q    == <<"/","p","o","i","t","/","r","e","s","t","/","s","o","k","K","u","n","g","o","r","e","l","s","e","?","p","a","g","e","=","1">>
S_REST_SOK_ENSK == <<"/","p","o","i","t","/","r","e","s","t","/","s","o","k","K","u","n","g","o","r","e","l","s","e","/","e","n","s","k","i","l","d","/","K","1","0","0","-","2","5">>
S_REST_CONFIG   == <<"/","p","o","i","t","/","r","e","s","t","/","c","o","n","f","i","g">>
S_OTHER_ORIGIN  == <<"h","t","t","p","s",":","/","/","e","x","a","m","p","l","e",".","c","o","m">>
S_DATA_URL      == <<"d","a","t","a",":","t","e","x","t","/","p","l","a","i","n",",","h","i">>

\* names of the URLs; UrlText gives the characters
\* the pages of the tab
Urls == {"listing", "alias_K100", "detail_K100", "detail_K200", "detail_K100_sub"}
\* the detail page of K100-25 as the application also serves it: the identifier
\* in lower case
CaseUrls == {"detail_k100_lc"}
\* every URL a tab may show
Pages == Urls \cup CaseUrls
\* the URLs the page passes to fetch() and xhr.open(): absolute, path-absolute, data:
ReqUrls == {"api", "api_rel", "api_enskild", "other_host", "other_path", "data_url"}

UrlText(u) ==
    CASE u = "listing"         -> S_ORIGIN \o S_APP_SOK
      [] u = "alias_K100"      -> S_ORIGIN \o S_APP_ENSK \o S_K100
      [] u = "detail_K100"     -> S_ORIGIN \o S_APP_KUNG \o S_K100
      [] u = "detail_K200"     -> S_ORIGIN \o S_APP_KUNG \o S_K200
      [] u = "detail_K100_sub" -> S_ORIGIN \o S_APP_KUNG \o S_K100 \o S_ENSKILD_X
      [] u = "detail_k100_lc"  -> S_ORIGIN \o S_APP_KUNG \o S_K100_LC
      [] u = "api"             -> S_ORIGIN \o S_REST_SOK
      [] u = "api_rel"         -> S_REST_SOK_Q
      [] u = "api_enskild"     -> S_ORIGIN \o S_REST_SOK_ENSK
      [] u = "other_host"      -> S_OTHER_ORIGIN \o S_REST_SOK
      [] u = "other_path"      -> S_ORIGIN \o S_REST_CONFIG
      [] u = "data_url"        -> S_DATA_URL
      [] u = "empty"           -> <<>>

----------------------------------------------------------------------------
(* content.js: page classification *)

S_SL_ENSKILD_SL == <<"/","e","n","s","k","i","l","d","/">>
S_RE_KUNG_PFX   == <<"h","t","t","p","s",":","/","/","p","o","i","t",".","b","o","l","a","g","s","v","e","r","k","e","t",".","s","e","/","p","o","i","t","-","a","p","p","/","k","u","n","g","o","r","e","l","s","e","/","k">>
S_RE_ENSK_PFX   == <<"h","t","t","p","s",":","/","/","p","o","i","t",".","b","o","l","a","g","s","v","e","r","k","e","t",".","s","e","/","p","o","i","t","-","a","p","p","/","e","n","s","k","i","l","d","/">>
S_KUNG_K        == <<"k","u","n","g","o","r","e","l","s","e","/","K">>
S_ENSK_K        == <<"e","n","s","k","i","l","d","/","K">>

\* /^https:\/\/poit\.bolagsverket\.se\/poit-app\/kungorelse\/K[^/]+/i .test(s)
KungorelseRe(s) ==
    /\ startsWith(toLowerCase(s), S_RE_KUNG_PFX)
    /\ Len(s) > Len(S_RE_KUNG_PFX)
    /\ s[Len(S_RE_KUNG_PFX) + 1] # "/"

\* /^https:\/\/poit\.bolagsverket\.se\/poit-app\/enskild\//i .test(s)
EnskildRe(s) == startsWith(toLowerCase(s), S_RE_ENSK_PFX)

\* urlContainsEnskild(url), content.js
urlContainsEnskild(s) == Len(s) > 0 /\ includes(toLowerCase(s), S_SL_ENSKILD_SL)

\* isKungorelsePage(), isEnskildPage() read window.location.href
isKungorelsePageAt(s) ==
    IF includes(toLowerCase(s), S_SL_ENSKILD_SL) THEN FALSE ELSE KungorelseRe(s)
isEnskildPageAt(s) == includes(toLowerCase(s), S_SL_ENSKILD_SL)

\* the characters [\d\-]
IsIdChar(c) == c \in Digits \/ c = "-"

\* the greedy run of [\d\-] characters of s from position i on
RECURSIVE IdRun(_, _)
IdRun(s, i) ==
    IF i <= Len(s) /\ IsIdChar(s[i]) THEN <<s[i]>> \o IdRun(s, i + 1) ELSE <<>>

\* s.match(/(?:kungorelse|enskild)\/(K[\d\-]+)/): the positions of the K of a match
IdMatchAt(s, k) ==
    /\ k >= 1 /\ k <= Len(s)
    /\ \/ occursAt(s, S_KUNG_K, k - Len(S_KUNG_K) + 1)
       \/ occursAt(s, S_ENSK_K, k - Len(S_ENSK_K) + 1)
    /\ IdRun(s, k + 1) # <<>>

\* extractKungorelseId() on href s; <<>> stands for null
extractKungorelseIdAt(s) ==
    IF \E k \in 1..Len(s) : IdMatchAt(s, k)
    THEN LET \* the leftmost match is the one whose alternative starts first
             ks == {k \in 1..Len(s) : IdMatchAt(s, k)}
             start(k) == IF occursAt(s, S_KUNG_K, k - Len(S_KUNG_K) + 1)
                         THEN k - Len(S_KUNG_K) + 1 ELSE k - Len(S_ENSK_K) + 1
             k0 == CHOOSE k \in ks : \A j \in ks : start(k) <= start(j)
         IN  <<"K">> \o IdRun(s, k0 + 1)
    ELSE <<>>

----------------------------------------------------------------------------
(* The classification of each URL of Pages, computed once from the patterns *)

KungorelseReUrls   == {u \in Pages : KungorelseRe(UrlText(u))}
EnskildReUrls      == {u \in Pages : EnskildRe(UrlText(u))}
ContainsEnskildUrls == {u \in Pages : urlContainsEnskild(UrlText(u))}
KungorelsePageUrls == {u \in Pages : isKungorelsePageAt(UrlText(u))}
EnskildPageUrls    == {u \in Pages : isEnskildPageAt(UrlText(u))}
KungorelseIdOf     == [u \in Pages |-> extractKungorelseIdAt(UrlText(u))]
NormalizedIdOf     == [u \in Pages |-> replaceFirst(KungorelseIdOf[u], "/", "-")]

\* the functions of content.js on the tab's current window.location.href
isKungorelsePage    == href \in KungorelsePageUrls
isEnskildPage       == href \in EnskildPageUrls
extractKungorelseId == KungorelseIdOf[href]

----------------------------------------------------------------------------
(* content.js: the Page Orchestrator *)

TEXT_MIN      == 500     \* textContent.length < 500
LINK_MAX      == 2       \* linkCount > 2
LINK_TEXT_MIN == 1000    \* textContent.length < 1000

S_SL_KUNG_K == <<"/","k","u","n","g","o","r","e","l","s","e","/","K">>

\* what the capture check and the link search read from the document
TextLens   == {300, 600}
LinkCounts == {0, 3}
Doms       == [textLen : TextLens, linkCount : LinkCounts]
\* documents at the thresholds of the content checks (content.js:140,
\* content.js:152)
EdgeDoms   == {[textLen |-> 499, linkCount |-> 0], [textLen |-> 500, linkCount |-> 2],
               [textLen |-> 500, linkCount |-> 3], [textLen |-> 999, linkCount |-> 3],
               [textLen |-> 1000, linkCount |-> 3]}

\* the href of an a[href*="/kungorelse/K"] element of the page
LinkTargets == {u \in Urls : includes(UrlText(u), S_SL_KUNG_K)}

\* an outstanding setTimeout callback, or an await continuation of handleEnskildPage;
\* then: the caller's .then() callback ("none", "initial", "poll")
\* nav: navCount when the timer was started
Task(kind, then, target, id, nav) ==
    [kind |-> kind, then |-> then, target |-> target, id |-> id, nav |-> nav]
One(t) == <<t>>
NoTimers == <<>>
TimerSet(T) == {T[i] : i \in DOMAIN T}
FirstAt(t, T) == CHOOSE i \in DOMAIN T : T[i] = t /\ \A j \in 1..(i - 1) : T[j] # t
Without(T, t) == SubSeq(T, 1, FirstAt(t, T) - 1) \o SubSeq(T, FirstAt(t, T) + 1, Len(T))

\* the delays of the timers, in milliseconds
INITIAL_DELAY             == 1000
CAPTURE_DELAY             == 3000
AFTER_CLICK_INITIAL_DELAY == 2500
AFTER_CLICK_POLL_DELAY    == 2000
POLL_INTERVAL             == 500
DWELL_MIN                 == 1000    \* 1000 + Math.random() * 1000
DWELL_SPAN                == 1000
CLICK_MIN                 == 200     \* 200 + Math.random() * 300
CLICK_SPAN                == 300

\* the least delay of a timer of this kind, and the bound its delay stays at or below
DelayLo(kind) ==
    CASE kind = "initialCheck"      -> INITIAL_DELAY
      [] kind = "captureCheck"      -> CAPTURE_DELAY
      [] kind = "afterClickInitial" -> AFTER_CLICK_INITIAL_DELAY
      [] kind = "afterClickPoll"    -> AFTER_CLICK_POLL_DELAY
      [] kind = "dwell"             -> DWELL_MIN
      [] kind = "click"             -> CLICK_MIN
DelayHi(kind) ==
    CASE kind = "dwell" -> DWELL_MIN + DWELL_SPAN
      [] kind = "click" -> CLICK_MIN + CLICK_SPAN
      [] OTHER          -> DelayLo(kind)

\* setTimeout: the callback t may run now. A timer started earlier with a delay
\* that is not longer runs first, and so does a tick of the URL poller
\* (content.js:227) when t waits at least one interval: if the tab's URL differs
\* from the last seen one, it changed after t was started
Due(t) ==
    /\ t \in TimerSet(timers)
    /\ \A j \in 1..(FirstAt(t, timers) - 1) : DelayHi(timers[j].kind) > DelayLo(t.kind)
    /\ DelayLo(t.kind) >= POLL_INTERVAL => (href = lastUrl \/ t.nav < navCount)

\* the callback the caller chained on handleEnskildPage() with .then(), run when
\* the promise resolves: it only starts a timer
thenTimers(then, nav) ==
    CASE then = "initial" -> One(Task("afterClickInitial", "none", "none", <<>>, nav))
      [] then = "poll"    -> One(Task("afterClickPoll", "none", "none", <<>>, nav))
      [] OTHER            -> NoTimers

\* handleEnskildPage() up to its first await; handled: dataset.enskildHandled as the
\* caller left it, T: the timers the caller leaves
handleEnskildPage(then, handled, T) ==
    IF ~isEnskildPage \/ handled
    THEN /\ enskildHandled' = handled
         /\ timers' = T \o thenTimers(then, navCount)
    ELSE /\ enskildHandled' = TRUE
         /\ timers' = Append(T, Task("dwell", then, "none", <<>>, navCount))

\* captureKungorelseData with a duplicate check that looks at pendingCaptures only
captureKungorelseData_PendingOnly(T) ==
    LET kungorelseId == extractKungorelseId
        normalizedId == NormalizedIdOf[href]
    IN  IF \/ href \in ContainsEnskildUrls
           \/ ~isKungorelsePage \/ isEnskildPage
           \/ kungorelseId = <<>>
        THEN /\ timers' = T
             /\ UNCHANGED <<pendingCaptures, duplicateSkips>>
        ELSE IF normalizedId \in pendingCaptures
        THEN /\ timers' = T
             /\ duplicateSkips' = duplicateSkips \cup {normalizedId}
             /\ UNCHANGED pendingCaptures
        ELSE /\ pendingCaptures' = pendingCaptures \cup {normalizedId}
             /\ timers' = Append(T, Task("captureCheck", "none", "none", normalizedId, navCount))
             /\ UNCHANGED duplicateSkips

\* captureKungorelseData with a duplicate check that looks at
\* capturedKungorelseIds only
captureKungorelseData_CapturedOnly(T) ==
    LET kungorelseId == extractKungorelseId
        normalizedId == NormalizedIdOf[href]
    IN  IF \/ href \in ContainsEnskildUrls
           \/ ~isKungorelsePage \/ isEnskildPage
           \/ kungorelseId = <<>>
        THEN /\ timers' = T
             /\ UNCHANGED <<pendingCaptures, duplicateSkips>>
        ELSE IF normalizedId \in capturedKungorelseIds
        THEN /\ timers' = T
             /\ duplicateSkips' = duplicateSkips \cup {normalizedId}
             /\ UNCHANGED pendingCaptures
        ELSE /\ pendingCaptures' = pendingCaptures \cup {normalizedId}
             /\ timers' = Append(T, Task("captureCheck", "none", "none", normalizedId, navCount))
             /\ UNCHANGED duplicateSkips

\* captureKungorelseData() up to its setTimeout; T: the timers the caller leaves
captureKungorelseData(T) ==
    LET kungorelseId == extractKungorelseId
        normalizedId == NormalizedIdOf[href]
    IN  IF \/ href \in ContainsEnskildUrls
           \/ ~isKungorelsePage \/ isEnskildPage
           \/ kungorelseId = <<>>
        THEN /\ timers' = T
             /\ UNCHANGED <<pendingCaptures, duplicateSkips>>
        ELSE IF \/ normalizedId \in capturedKungorelseIds
                \/ normalizedId \in pendingCaptures
        THEN /\ timers' = T
             /\ duplicateSkips' = duplicateSkips \cup {normalizedId}
             /\ UNCHANGED pendingCaptures
        ELSE /\ pendingCaptures' = pendingCaptures \cup {normalizedId}
             /\ timers' = Append(T, Task("captureCheck", "none", "none", normalizedId, navCount))
             /\ UNCHANGED duplicateSkips

\* captureCheckOutcome without the re-verification of the URL (content.js:119)
captureCheckOutcome_NoReverify(currentHref, normalizedId, textLen, linkCount) ==
    IF normalizedId \in capturedKungorelseIds THEN "alreadyCaptured"
    ELSE IF textLen < TEXT_MIN THEN "tooShort"
    ELSE IF linkCount > LINK_MAX /\ textLen < LINK_TEXT_MIN THEN "linkPage"
    ELSE IF currentHref \in ContainsEnskildUrls THEN "blockedFinal"
    ELSE "capture"

\* captureCheckOutcome without the final safety check of content.js:160
captureCheckOutcome_NoFinalCheck(currentHref, normalizedId, textLen, linkCount) ==
    IF currentHref \notin KungorelseReUrls \/ currentHref \in EnskildReUrls THEN "pageChanged"
    ELSE IF normalizedId \in capturedKungorelseIds THEN "alreadyCaptured"
    ELSE IF textLen < TEXT_MIN THEN "tooShort"
    ELSE IF linkCount > LINK_MAX /\ textLen < LINK_TEXT_MIN THEN "linkPage"
    ELSE "capture"

\* captureCheckOutcome without the 500-character floor of content.js:140
captureCheckOutcome_NoFloor(currentHref, normalizedId, textLen, linkCount) ==
    IF currentHref \notin KungorelseReUrls \/ currentHref \in EnskildReUrls THEN "pageChanged"
    ELSE IF normalizedId \in capturedKungorelseIds THEN "alreadyCaptured"
    ELSE IF linkCount > LINK_MAX /\ textLen < LINK_TEXT_MIN THEN "linkPage"
    ELSE IF currentHref \in ContainsEnskildUrls THEN "blockedFinal"
    ELSE "capture"

\* captureCheckOutcome with the link-list test on the number of links alone
\* (content.js:152 without the length of the text)
captureCheckOutcome_LinksAlone(currentHref, normalizedId, textLen, linkCount) ==
    IF currentHref \notin KungorelseReUrls \/ currentHref \in EnskildReUrls THEN "pageChanged"
    ELSE IF normalizedId \in capturedKungorelseIds THEN "alreadyCaptured"
    ELSE IF textLen < TEXT_MIN THEN "tooShort"
    ELSE IF linkCount > LINK_MAX THEN "linkPage"
    ELSE IF currentHref \in ContainsEnskildUrls THEN "blockedFinal"
    ELSE "capture"

\* the decision of the capture timer's callback, in the order of its checks
captureCheckOutcome(currentHref, normalizedId, textLen, linkCount) ==
    IF currentHref \notin KungorelseReUrls \/ currentHref \in EnskildReUrls THEN "pageChanged"
    ELSE IF normalizedId \in capturedKungorelseIds THEN "alreadyCaptured"
    ELSE IF textLen < TEXT_MIN THEN "tooShort"
    ELSE IF linkCount > LINK_MAX /\ textLen < LINK_TEXT_MIN THEN "linkPage"
    ELSE IF currentHref \in ContainsEnskildUrls THEN "blockedFinal"
    ELSE "capture"

\* the outcomes that abandon the capture for the page's state: "Page changed"
\* (content.js:111), "content too short" (content.js:141), "intermediate page"
\* (content.js:153)
Rejections == {"pageChanged", "tooShort", "linkPage"}

NoCheck == [id |-> <<>>, outcome |-> "none"]

KungorelseMsg(url, id, textLen) ==
    [type |-> "KV_SAVE_KUNGORELSE",
     payload |-> [url |-> url, kungorelseId |-> id, textLen |-> textLen]]

\* CaptureCheck without capturedKungorelseIds.add (content.js:174)
CaptureCheck_NoMark(t, d) ==
    /\ t.kind = "captureCheck"
    /\ Due(t)
    /\ timers' = Without(timers, t)
    /\ LET outcome == captureCheckOutcome(href, t.id, d.textLen, d.linkCount)
       IN  /\ lastCheck' = [id |-> t.id, outcome |-> outcome]
           /\ rejectedHere' = IF outcome \in Rejections THEN rejectedHere \cup {t.id}
                                                          ELSE rejectedHere
           /\ pendingCaptures' = pendingCaptures \ {t.id}
           /\ IF outcome = "capture"
              THEN /\ relayInbox' = Append(relayInbox, KungorelseMsg(href, t.id, d.textLen))
                   /\ forwarded' = Append(forwarded, KungorelseMsg(href, t.id, d.textLen).payload)
              ELSE UNCHANGED <<relayInbox, forwarded>>
    /\ UNCHANGED <<href, loadHref, IS_KUNGORELSE, IS_ENSKILD, lastUrl, enskildHandled,
                   capturedKungorelseIds, prevHref, navCount, httpRequests, bgBlocked, bgFailed>>
    /\ UNCHANGED <<hookVars, sanVars, peerVars, aliasClicks, duplicateSkips>>

\* CaptureCheck without pendingCaptures.delete on a rejection (content.js:121,
\* content.js:144, content.js:156)
CaptureCheck_KeepsPending(t, d) ==
    /\ t.kind = "captureCheck"
    /\ Due(t)
    /\ timers' = Without(timers, t)
    /\ LET outcome == captureCheckOutcome(href, t.id, d.textLen, d.linkCount)
       IN  /\ lastCheck' = [id |-> t.id, outcome |-> outcome]
           /\ rejectedHere' = IF outcome \in Rejections THEN rejectedHere \cup {t.id}
                                                          ELSE rejectedHere
           /\ IF outcome = "capture"
              THEN /\ capturedKungorelseIds' = capturedKungorelseIds \cup {t.id}
                   /\ pendingCaptures' = pendingCaptures \ {t.id}
                   /\ relayInbox' = Append(relayInbox, KungorelseMsg(href, t.id, d.textLen))
                   /\ forwarded' = Append(forwarded, KungorelseMsg(href, t.id, d.textLen).payload)
              ELSE UNCHANGED <<pendingCaptures, capturedKungorelseIds, relayInbox, forwarded>>
    /\ UNCHANGED <<href, loadHref, IS_KUNGORELSE, IS_ENSKILD, lastUrl, enskildHandled,
                   prevHref, navCount, httpRequests, bgBlocked, bgFailed>>
    /\ UNCHANGED <<hookVars, sanVars, peerVars, aliasClicks, duplicateSkips>>

\* the capture timer fires (the callback of content.js:107); d: the document as
\* the callback finds it
CaptureCheck(t, d) ==
    /\ t.kind = "captureCheck"
    /\ Due(t)
    /\ timers' = Without(timers, t)
    /\ LET outcome == captureCheckOutcome(href, t.id, d.textLen, d.linkCount)
       IN  /\ lastCheck' = [id |-> t.id, outcome |-> outcome]
           /\ rejectedHere' = IF outcome \in Rejections THEN rejectedHere \cup {t.id}
                                                          ELSE rejectedHere
           /\ IF outcome = "capture"
              THEN /\ capturedKungorelseIds' = capturedKungorelseIds \cup {t.id}
                   /\ pendingCaptures' = pendingCaptures \ {t.id}
                   /\ relayInbox' = Append(relayInbox, KungorelseMsg(href, t.id, d.textLen))
                   /\ forwarded' = Append(forwarded, KungorelseMsg(href, t.id, d.textLen).payload)
              ELSE /\ pendingCaptures' = pendingCaptures \ {t.id}
                   /\ UNCHANGED <<capturedKungorelseIds, relayInbox, forwarded>>
    /\ UNCHANGED <<href, loadHref, IS_KUNGORELSE, IS_ENSKILD, lastUrl, enskildHandled,
                   prevHref, navCount, httpRequests, bgBlocked, bgFailed>>
    /\ UNCHANGED <<hookVars, sanVars, peerVars, aliasClicks, duplicateSkips>>

\* the initial check, 1000 ms after load (content.js:199)
InitialCheck(t) ==
    /\ t.kind = "initialCheck"
    /\ Due(t)
    /\ IF isEnskildPage
       THEN /\ handleEnskildPage("initial", enskildHandled, Without(timers, t))
            /\ UNCHANGED <<pendingCaptures, duplicateSkips>>
       ELSE IF isKungorelsePage
       THEN /\ captureKungorelseData(Without(timers, t))
            /\ UNCHANGED enskildHandled
       ELSE /\ timers' = Without(timers, t)
            /\ UNCHANGED <<pendingCaptures, enskildHandled, duplicateSkips>>
    /\ UNCHANGED <<href, IS_KUNGORELSE, IS_ENSKILD, lastUrl, capturedKungorelseIds,
                   loadHref, prevHref, navCount, forwarded, lastCheck, relayVars>>
    /\ UNCHANGED <<hookVars, sanVars, peerVars, aliasClicks, rejectedHere>>

\* the 2500 ms timer the initial check chains on handleEnskildPage() (content.js:204)
AfterClickInitial(t) ==
    /\ t.kind = "afterClickInitial"
    /\ Due(t)
    /\ IF href \in KungorelseReUrls /\ href \notin EnskildReUrls
       THEN captureKungorelseData(Without(timers, t))
       ELSE /\ timers' = Without(timers, t)
            /\ UNCHANGED <<pendingCaptures, duplicateSkips>>
    /\ UNCHANGED <<href, IS_KUNGORELSE, IS_ENSKILD, lastUrl, enskildHandled,
                   capturedKungorelseIds, loadHref, prevHref, navCount, forwarded, lastCheck, relayVars>>
    /\ UNCHANGED <<hookVars, sanVars, peerVars, aliasClicks, rejectedHere>>

\* the 2000 ms timer the poller chains on handleEnskildPage() (content.js:248)
AfterClickPoll(t) ==
    /\ t.kind = "afterClickPoll"
    /\ Due(t)
    /\ captureKungorelseData(Without(timers, t))
    /\ UNCHANGED <<href, IS_KUNGORELSE, IS_ENSKILD, lastUrl, enskildHandled,
                   capturedKungorelseIds, loadHref, prevHref, navCount, forwarded, lastCheck, relayVars>>
    /\ UNCHANGED <<hookVars, sanVars, peerVars, aliasClicks, rejectedHere>>

\* a tick of the 500 ms URL poller that sees a new URL (content.js:227)
PollTick ==
    /\ IS_KUNGORELSE \/ IS_ENSKILD
    /\ href # lastUrl
    /\ lastUrl' = href
    /\ IF href \in EnskildReUrls
       THEN /\ handleEnskildPage("poll", FALSE, timers)
            /\ UNCHANGED <<pendingCaptures, duplicateSkips>>
       ELSE IF href \in KungorelseReUrls
       THEN /\ captureKungorelseData(timers)
            /\ enskildHandled' = FALSE
       ELSE /\ enskildHandled' = FALSE
            /\ UNCHANGED <<pendingCaptures, timers, duplicateSkips>>
    /\ UNCHANGED <<href, IS_KUNGORELSE, IS_ENSKILD, capturedKungorelseIds,
                   loadHref, prevHref, navCount, forwarded, relayVars>>
    /\ UNCHANGED <<hookVars, sanVars, peerVars, aliasClicks>>
    /\ rejectedHere' = {}
    /\ lastCheck' = NoCheck

\* DwellDone starting the dwell and the link search again when no link is found
DwellDone_SearchesAgain(t, d) ==
    /\ t.kind = "dwell"
    /\ Due(t)
    /\ IF d.linkCount > 0
       THEN timers' = Append(Without(timers, t), Task("click", t.then, "link", <<>>, navCount))
       ELSE timers' = Append(Without(timers, t), Task("dwell", t.then, "none", <<>>, navCount))
    /\ UNCHANGED <<href, loadHref, IS_KUNGORELSE, IS_ENSKILD, lastUrl, enskildHandled,
                   capturedKungorelseIds, pendingCaptures, prevHref, navCount,
                   forwarded, lastCheck, relayVars>>
    /\ UNCHANGED <<hookVars, sanVars, peerVars, aliasClicks, rejectedHere, duplicateSkips>>

\* handleEnskildPage() after its first await: the link search (content.js:310) on
\* the document d as it is then; every selector asks for a[href*="/kungorelse/K"]
DwellDone(t, d) ==
    /\ t.kind = "dwell"
    /\ Due(t)
    /\ IF d.linkCount > 0
       THEN timers' = Append(Without(timers, t), Task("click", t.then, "link", <<>>, navCount))
       ELSE timers' = Without(timers, t) \o thenTimers(t.then, navCount)
    /\ UNCHANGED <<href, loadHref, IS_KUNGORELSE, IS_ENSKILD, lastUrl, enskildHandled,
                   capturedKungorelseIds, pendingCaptures, prevHref, navCount,
                   forwarded, lastCheck, relayVars>>
    /\ UNCHANGED <<hookVars, sanVars, peerVars, aliasClicks, rejectedHere, duplicateSkips>>

\* handleEnskildPage() after its second await: link.click() (content.js:325) on
\* the element the search found; the page follows the element's href to the URL
\* to, or handles the click without changing the URL (to = href)
ClickLink(t, to) ==
    /\ t.kind = "click"
    /\ Due(t)
    /\ to \in LinkTargets \cup {href}
    /\ to # href => navCount < MaxNav
    /\ href' = to
    /\ prevHref' = IF to # href THEN href ELSE prevHref
    /\ navCount' = IF to # href THEN navCount + 1 ELSE navCount
    /\ lastCheck' = IF to # href THEN NoCheck ELSE lastCheck
    /\ rejectedHere' = IF to # href THEN {} ELSE rejectedHere
    /\ duplicateSkips' = IF to # href THEN {} ELSE duplicateSkips
    /\ aliasClicks' = IF to # href THEN 0
                      ELSE IF isEnskildPage THEN aliasClicks + 1 ELSE aliasClicks
    /\ timers' = Without(timers, t) \o thenTimers(t.then, navCount')
    /\ UNCHANGED <<loadHref, IS_KUNGORELSE, IS_ENSKILD, lastUrl, enskildHandled,
                   capturedKungorelseIds, pendingCaptures, forwarded, relayVars>>
    /\ UNCHANGED <<hookVars, sanVars, peerVars>>

\* the page (or the user) takes the tab to another URL without reloading it
Navigate(u) ==
    /\ u # href
    /\ navCount < MaxNav
    /\ href' = u
    /\ prevHref' = href
    /\ navCount' = navCount + 1
    /\ UNCHANGED <<loadHref, IS_KUNGORELSE, IS_ENSKILD, lastUrl, enskildHandled,
                   capturedKungorelseIds, pendingCaptures, timers,
                   forwarded, relayVars>>
    /\ UNCHANGED <<hookVars, sanVars, peerVars>>
    /\ aliasClicks' = 0
    /\ rejectedHere' = {}
    /\ duplicateSkips' = {}
    /\ lastCheck' = NoCheck

-----------------------------------------------------------------------------
(* content.js in a second tab: another run of the same script, with its own
   capturedKungorelseIds and pendingCaptures (content.js:62-63), messaging the
   same background context. The tab is opened on a detail page and stays there. *)

\* no second tab is open
NoPeer ==
    [href |-> "none", capturedKungorelseIds |-> {}, pendingCaptures |-> {},
     timers |-> NoTimers, forwarded |-> <<>>]

\* the second tab is opened on the page u: the script starts with empty sets
\* and, on a detail page, the timer of its initial check (content.js:197-199)
PeerOpen(u) ==
    /\ peer = NoPeer
    /\ u \in KungorelsePageUrls \cap Urls
    /\ peer' = [NoPeer EXCEPT !.href = u,
                              !.timers = One(Task("initialCheck", "none", "none", <<>>, 0))]
    /\ UNCHANGED <<orchVars, relayVars, hookVars, sanVars>>

\* captureKungorelseData of the second tab with a duplicate check that also
\* consults the sets of the first tab
peerCaptureKungorelseData_SharedSets(p, T) ==
    LET normalizedId == NormalizedIdOf[p.href]
    IN  IF \/ p.href \in ContainsEnskildUrls
           \/ p.href \notin KungorelsePageUrls \/ p.href \in EnskildPageUrls
           \/ KungorelseIdOf[p.href] = <<>>
        THEN [p EXCEPT !.timers = T]
        ELSE IF \/ normalizedId \in p.capturedKungorelseIds \cup capturedKungorelseIds
                \/ normalizedId \in p.pendingCaptures \cup pendingCaptures
        THEN [p EXCEPT !.timers = T]
        ELSE [p EXCEPT !.pendingCaptures = @ \cup {normalizedId},
                       !.timers = Append(T, Task("captureCheck", "none", "none", normalizedId, 0))]

\* captureKungorelseData() in the second tab, up to its setTimeout
\* (content.js:72-107); p: the tab, T: the timers the caller leaves
peerCaptureKungorelseData(p, T) ==
    LET normalizedId == NormalizedIdOf[p.href]
    IN  IF \/ p.href \in ContainsEnskildUrls
           \/ p.href \notin KungorelsePageUrls \/ p.href \in EnskildPageUrls
           \/ KungorelseIdOf[p.href] = <<>>
        THEN [p EXCEPT !.timers = T]
        ELSE IF \/ normalizedId \in p.capturedKungorelseIds
                \/ normalizedId \in p.pendingCaptures
        THEN [p EXCEPT !.timers = T]
        ELSE [p EXCEPT !.pendingCaptures = @ \cup {normalizedId},
                       !.timers = Append(T, Task("captureCheck", "none", "none", normalizedId, 0))]

\* the decision of the capture timer's callback in the second tab
\* (content.js:109-169)
peerCheckOutcome(p, normalizedId, textLen, linkCount) ==
    IF p.href \notin KungorelseReUrls \/ p.href \in EnskildReUrls THEN "pageChanged"
    ELSE IF normalizedId \in p.capturedKungorelseIds THEN "alreadyCaptured"
    ELSE IF textLen < TEXT_MIN THEN "tooShort"
    ELSE IF linkCount > LINK_MAX /\ textLen < LINK_TEXT_MIN THEN "linkPage"
    ELSE IF p.href \in ContainsEnskildUrls THEN "blockedFinal"
    ELSE "capture"

\* the initial check of the second tab, on its detail page (content.js:199-223)
PeerInitialCheck ==
    /\ peer.timers # NoTimers
    /\ Head(peer.timers).kind = "initialCheck"
    /\ peer.href \in KungorelsePageUrls
    /\ peer' = peerCaptureKungorelseData(peer, Tail(peer.timers))
    /\ UNCHANGED <<orchVars, relayVars, hookVars, sanVars>>

\* the capture timer of the second tab fires (content.js:107-194); d: the
\* document as the callback finds it
PeerCaptureCheck(d) ==
    /\ peer.timers # NoTimers
    /\ Head(peer.timers).kind = "captureCheck"
    /\ LET t       == Head(peer.timers)
           outcome == peerCheckOutcome(peer, t.id, d.textLen, d.linkCount)
       IN  IF outcome = "capture"
           THEN /\ peer' = [peer EXCEPT
                               !.timers = Tail(@),
                               !.capturedKungorelseIds = @ \cup {t.id},
                               !.pendingCaptures = @ \ {t.id},
                               !.forwarded = Append(@, KungorelseMsg(peer.href, t.id, d.textLen).payload)]
                /\ relayInbox' = Append(relayInbox, KungorelseMsg(peer.href, t.id, d.textLen))
           ELSE /\ peer' = [peer EXCEPT !.timers = Tail(@),
                                        !.pendingCaptures = @ \ {t.id}]
                /\ UNCHANGED relayInbox
    /\ UNCHANGED <<orchVars, httpRequests, bgBlocked, bgFailed, hookVars, sanVars>>

-----------------------------------------------------------------------------

\* ObserverCallback chaining the capture on the handler as the poller does
\* (content.js:246) instead of the bare call of content.js:267
ObserverCallback_ChainsCapture ==
    /\ IS_KUNGORELSE \/ IS_ENSKILD
    /\ href \in EnskildReUrls
    /\ handleEnskildPage("poll", enskildHandled, timers)
    /\ UNCHANGED <<href, loadHref, IS_KUNGORELSE, IS_ENSKILD, lastUrl,
                   capturedKungorelseIds, pendingCaptures, prevHref, navCount,
                   forwarded, lastCheck, relayVars>>
    /\ UNCHANGED <<hookVars, sanVars, peerVars, aliasClicks, rejectedHere, duplicateSkips>>

\* the page changes its document: the MutationObserver, installed at content.js:274
\* when the script was loaded on a kungorelse or enskild page, runs its callback
\* (content.js:260)
ObserverCallback ==
    /\ IS_KUNGORELSE \/ IS_ENSKILD
    /\ href \in EnskildReUrls
    /\ handleEnskildPage("none", enskildHandled, timers)
    /\ UNCHANGED <<href, loadHref, IS_KUNGORELSE, IS_ENSKILD, lastUrl,
                   capturedKungorelseIds, pendingCaptures, prevHref, navCount,
                   forwarded, lastCheck, relayVars>>
    /\ UNCHANGED <<hookVars, sanVars, peerVars, aliasClicks, rejectedHere, duplicateSkips>>

----------------------------------------------------------------------------
(* background.js: the Sanitizer *)

\* JavaScript values: [t |-> "undefined"], [t |-> "number"] (a truthy non-string),
\* [t |-> "string", s |-> chars], [t |-> "array", items |-> seq],
\* [t |-> "object", ...fields]
Undefined == [t |-> "undefined"]
Num       == [t |-> "number"]
Str(s)    == [t |-> "string", s |-> s]
Arr(xs)   == [t |-> "array", items |-> xs]

\* no value: the call has not been made
NotRun == [t |-> "notrun"]

Truthy(v) == v.t \in {"number", "array", "object"} \/ (v.t = "string" /\ v.s # <<>>)

\* a || b
Or(a, b) == IF Truthy(a) THEN a ELSE b

KW_FORENING == <<"f","ö","r","e","n","i","n","g">>
KW_HOLDING  == <<"h","o","l","d","i","n","g">>
NAME_EXCLUDE_KEYWORDS == << KW_FORENING, KW_HOLDING >>

IsSpace(c) == c \in {" ", "\t", "\n"}

\* s.replace(/\s+/g, ""), s.replace(/\d+/g, ""), s.trim()
stripSpaces(s) == SelectSeq(s, LAMBDA c : ~IsSpace(c))
stripDigits(s) == SelectSeq(s, LAMBDA c : c \notin Digits)
RECURSIVE trimStart(_)
trimStart(s) == IF s # <<>> /\ IsSpace(Head(s)) THEN trimStart(Tail(s)) ELSE s
RECURSIVE trimEnd(_)
trimEnd(s) ==
    IF s # <<>> /\ IsSpace(s[Len(s)]) THEN trimEnd(SubSeq(s, 1, Len(s) - 1)) ELSE s
trim(s) == trimEnd(trimStart(s))

\* normalizeCompanyName keeping the digits
normalizeCompanyName_KeepDigits(name) ==
    IF name.t # "string" THEN <<>>
    ELSE toLowerCase(stripSpaces(name.s))

\* normalizeCompanyName(name) (background.js:11)
normalizeCompanyName(name) ==
    IF name.t # "string" THEN <<>>
    ELSE toLowerCase(stripDigits(stripSpaces(name.s)))

\* shouldSkipCompany comparing the name as written
shouldSkipCompany_CaseSensitive(name) ==
    IF name.t # "string" THEN FALSE
    ELSE \E k \in 1..Len(NAME_EXCLUDE_KEYWORDS) :
            includes(name.s, NAME_EXCLUDE_KEYWORDS[k])

\* shouldSkipCompany(name) (background.js:16)
shouldSkipCompany(name) ==
    IF name.t # "string" THEN FALSE
    ELSE \E k \in 1..Len(NAME_EXCLUDE_KEYWORDS) :
            includes(toLowerCase(name.s), NAME_EXCLUDE_KEYWORDS[k])

\* an entry object: the fields the sanitizer reads
Entry(namn, company_name, companyName, title, kungorelseid, kungorelseId) ==
    [t |-> "object", namn |-> namn, company_name |-> company_name,
     companyName |-> companyName, title |-> title,
     kungorelseid |-> kungorelseid, kungorelseId |-> kungorelseId]

rawNameOf(entry) ==
    Or(Or(Or(entry.namn, entry.company_name), entry.companyName), entry.title)
rawIdOf(entry) == Or(entry.kungorelseid, entry.kungorelseId)
\* normalizedId without toUpperCase
normalizedIdOf_NoUpper(entry) ==
    IF rawIdOf(entry).t = "string"
    THEN replaceFirst(trim(rawIdOf(entry).s), "/", "-")
    ELSE <<>>

normalizedIdOf(entry) ==
    IF rawIdOf(entry).t = "string"
    THEN replaceFirst(toUpperCase(trim(rawIdOf(entry).s)), "/", "-")
    ELSE <<>>

\* the loop remembering the id and the name of the entry before, kept or not,
\* instead of those of all kept entries
RECURSIVE sanitizeFrom_AdjacentOnly(_, _, _, _, _)
sanitizeFrom_AdjacentOnly(items, i, seenIds, seenNames, cleaned) ==
    IF i > Len(items) THEN cleaned
    ELSE LET entry == items[i] IN
         IF entry.t # "object"
         THEN sanitizeFrom_AdjacentOnly(items, i + 1, seenIds, seenNames,
                                        Append(cleaned, entry))
         ELSE LET rawName        == rawNameOf(entry)
                  normalizedId   == normalizedIdOf(entry)
                  normalizedName == normalizeCompanyName(rawName)
                  drop == \/ shouldSkipCompany(rawName)
                          \/ (normalizedId # <<>> /\ normalizedId \in seenIds)
                          \/ (normalizedName # <<>> /\ normalizedName \in seenNames)
              IN  sanitizeFrom_AdjacentOnly(items, i + 1, {normalizedId}, {normalizedName},
                        IF drop THEN cleaned ELSE Append(cleaned, entry))

\* the loop with cleaned.unshift(entry) for cleaned.push(entry)
RECURSIVE sanitizeFrom_Unshift(_, _, _, _, _)
sanitizeFrom_Unshift(items, i, seenIds, seenNames, cleaned) ==
    IF i > Len(items) THEN cleaned
    ELSE LET entry == items[i] IN
         IF entry.t # "object"
         THEN sanitizeFrom_Unshift(items, i + 1, seenIds, seenNames, <<entry>> \o cleaned)
         ELSE LET rawName        == rawNameOf(entry)
                  normalizedId   == normalizedIdOf(entry)
                  normalizedName == normalizeCompanyName(rawName)
                  drop == \/ shouldSkipCompany(rawName)
                          \/ (normalizedId # <<>> /\ normalizedId \in seenIds)
                          \/ (normalizedName # <<>> /\ normalizedName \in seenNames)
              IN  IF drop
                  THEN sanitizeFrom_Unshift(items, i + 1, seenIds, seenNames, cleaned)
                  ELSE sanitizeFrom_Unshift(items, i + 1,
                           IF normalizedId # <<>> THEN seenIds \cup {normalizedId} ELSE seenIds,
                           IF normalizedName # <<>> THEN seenNames \cup {normalizedName}
                                                    ELSE seenNames,
                           <<entry>> \o cleaned)

\* the loop without the tests that an id and a name are non-empty
\* (background.js:46, 51, 56, 57)
RECURSIVE sanitizeFrom_EmptyKeys(_, _, _, _, _)
sanitizeFrom_EmptyKeys(items, i, seenIds, seenNames, cleaned) ==
    IF i > Len(items) THEN cleaned
    ELSE LET entry == items[i] IN
         IF entry.t # "object"
         THEN sanitizeFrom_EmptyKeys(items, i + 1, seenIds, seenNames, Append(cleaned, entry))
         ELSE LET rawName        == rawNameOf(entry)
                  normalizedId   == normalizedIdOf(entry)
                  normalizedName == normalizeCompanyName(rawName)
              IN  IF shouldSkipCompany(rawName)
                  THEN sanitizeFrom_EmptyKeys(items, i + 1, seenIds, seenNames, cleaned)
                  ELSE IF normalizedId \in seenIds
                  THEN sanitizeFrom_EmptyKeys(items, i + 1, seenIds, seenNames, cleaned)
                  ELSE IF normalizedName \in seenNames
                  THEN sanitizeFrom_EmptyKeys(items, i + 1, seenIds, seenNames, cleaned)
                  ELSE sanitizeFrom_EmptyKeys(items, i + 1,
                           seenIds \cup {normalizedId},
                           seenNames \cup {normalizedName},
                           Append(cleaned, entry))

\* the loop of sanitizeCompanyList from entry i on (background.js:29)
RECURSIVE sanitizeFrom(_, _, _, _, _)
sanitizeFrom(items, i, seenIds, seenNames, cleaned) ==
    IF i > Len(items) THEN cleaned
    ELSE LET entry == items[i] IN
         IF entry.t # "object"
         THEN sanitizeFrom(items, i + 1, seenIds, seenNames, Append(cleaned, entry))
         ELSE LET rawName        == rawNameOf(entry)
                  normalizedId   == normalizedIdOf(entry)
                  normalizedName == normalizeCompanyName(rawName)
              IN  IF shouldSkipCompany(rawName)
                  THEN sanitizeFrom(items, i + 1, seenIds, seenNames, cleaned)
                  ELSE IF normalizedId # <<>> /\ normalizedId \in seenIds
                  THEN sanitizeFrom(items, i + 1, seenIds, seenNames, cleaned)
                  ELSE IF normalizedName # <<>> /\ normalizedName \in seenNames
                  THEN sanitizeFrom(items, i + 1, seenIds, seenNames, cleaned)
                  ELSE sanitizeFrom(items, i + 1,
                           IF normalizedId # <<>> THEN seenIds \cup {normalizedId} ELSE seenIds,
                           IF normalizedName # <<>> THEN seenNames \cup {normalizedName}
                                                    ELSE seenNames,
                           Append(cleaned, entry))

\* the entries of the lists the Relay has sent to POST /save in requests that
\* are under way
EntriesUnderWay ==
    UNION {LET data == httpRequests[i].body.data
               list == IF data.t = "array" THEN data.items
                       ELSE IF data.t = "object" /\ data.data.t = "array" THEN data.data.items
                       ELSE <<>>
           IN  {list[k] : k \in {k \in DOMAIN list : list[k].t = "object"}}
           : i \in {i \in DOMAIN httpRequests : httpRequests[i].endpoint = "/save"}}

\* sanitizeCompanyList with seenIds and seenNames kept across calls: they hold
\* the ids and names of the entries kept for earlier messages
sanitizeCompanyList_SharedSeen(items) ==
    IF items.t # "array" THEN items
    ELSE Arr(sanitizeFrom(items.items, 1,
                          {normalizedIdOf(e) : e \in EntriesUnderWay} \ {<<>>},
                          {normalizeCompanyName(rawNameOf(e)) : e \in EntriesUnderWay} \ {<<>>},
                          <<>>))

\* sanitizeCompanyList(items) (background.js:22); items is a JavaScript value
sanitizeCompanyList(items) ==
    IF items.t # "array" THEN items
    ELSE Arr(sanitizeFrom(items.items, 1, {}, {}, <<>>))

\* sanitizePayload(payload) (background.js:63); payload: [url, data], data a
\* JavaScript value, an object's data field being [t |-> "object", data |-> value]
sanitizePayload(payload) ==
    IF payload.data.t = "array"
    THEN [payload EXCEPT !.data = sanitizeCompanyList(payload.data)]
    ELSE IF payload.data.t = "object" /\ payload.data.data.t = "array"
    THEN [payload EXCEPT !.data.data = sanitizeCompanyList(payload.data.data)]
    ELSE payload

\* postToLocal(payload) (background.js:83): the request it issues
postToLocal(payload) ==
    << [endpoint |-> "/save", body |-> sanitizePayload(payload)] >>

----------------------------------------------------------------------------
(* background.js: the Relay *)

\* urlContainsEnskild(url), background.js
bgUrlContainsEnskild(s) == Len(s) > 0 /\ includes(toLowerCase(s), S_SL_ENSKILD_SL)

\* payload.url of a message: a name of UrlText, or "none" when the field is absent
PayloadUrlText(url) == IF url = "none" THEN <<>> ELSE UrlText(url)

\* the payload.url values that make the safety check of postKungorelseToLocal true
BgBlockedUrls ==
    {u \in Urls \cup {"none"} : u # "none" /\ bgUrlContainsEnskild(PayloadUrlText(u))}

\* postKungorelseToLocal without its safety check (background.js:100)
postKungorelseToLocal_NoGate(payload) ==
    [requests |-> << [endpoint |-> "/save_kungorelse", body |-> payload] >>,
     blocked |-> {}]

\* postKungorelseToLocal(payload) (background.js:98): the requests it issues and
\* the urls it logs as blocked
postKungorelseToLocal(payload) ==
    IF payload.url \in BgBlockedUrls
    THEN [requests |-> <<>>, blocked |-> {payload.url}]
    ELSE [requests |-> << [endpoint |-> "/save_kungorelse", body |-> payload] >>,
          blocked |-> {}]

\* the payload of a message that has none (msg.payload is falsy)
NoPayload == [absent |-> TRUE]

\* the listener of content.js has ignored no message event
NoEvent == "none"

\* chrome.runtime.onMessage listener (background.js:120)
RelayHandle ==
    /\ relayInbox # <<>>
    /\ LET msg == Head(relayInbox)
       IN  /\ relayInbox' = Tail(relayInbox)
           /\ IF msg.type = "KV_SAVE_JSON" /\ msg.payload # NoPayload
              THEN /\ httpRequests' = httpRequests \o postToLocal(msg.payload)
                   /\ UNCHANGED bgBlocked
              ELSE IF msg.type = "KV_SAVE_KUNGORELSE" /\ msg.payload # NoPayload
              THEN /\ httpRequests' = httpRequests \o postKungorelseToLocal(msg.payload).requests
                   /\ bgBlocked' = bgBlocked \cup postKungorelseToLocal(msg.payload).blocked
              ELSE UNCHANGED <<httpRequests, bgBlocked>>
    /\ UNCHANGED <<orchVars, bgFailed>>
    /\ UNCHANGED <<hookVars, sanVars, peerVars>>

\* messages and requests the Relay is followed through
MaxRelay == 2

\* what any tab, or anything else able to message the background context, may send
RelayMessages ==
    {KungorelseMsg(u, S_K100, 600) : u \in Urls \cup {"none"}}
        \cup {[type |-> "KV_SAVE_JSON", payload |-> [url |-> "none", data |-> Num]],
              [type |-> "KV_SAVE_KUNGORELSE", payload |-> NoPayload],
              [type |-> "OTHER", payload |-> KungorelseMsg("alias_K100", S_K100, 600).payload]}

\* a message arrives at the background context
RelayReceive(m) ==
    /\ Len(relayInbox) + Len(httpRequests) < MaxRelay
    /\ relayInbox' = Append(relayInbox, m)
    /\ UNCHANGED <<httpRequests, bgBlocked, bgFailed, orchVars>>
    /\ UNCHANGED <<hookVars, sanVars, peerVars>>

----------------------------------------------------------------------------
(* injected.js: the Hook Layer *)

TARGET_HOST   == <<"p","o","i","t",".","b","o","l","a","g","s","v","e","r","k","e","t",".","s","e">>
S_PAGE_PREFIX == <<"h","t","t","p","s",":","/","/","p","o","i","t",".","b","o","l","a","g","s","v","e","r","k","e","t",".","s","e","/">>
S_HTTPS       == <<"h","t","t","p","s",":","/","/">>
S_HTTP        == <<"h","t","t","p",":","/","/">>

\* the prefixes of shouldIgnoreUrl (injected.js:18)
IGNORED_PREFIXES ==
    << <<"c","h","r","o","m","e",":","/","/">>,
       <<"c","h","r","o","m","e","-","e","x","t","e","n","s","i","o","n",":","/","/">>,
       <<"f","i","l","e",":","/","/">>,
       <<"m","o","z","-","e","x","t","e","n","s","i","o","n",":","/","/">>,
       <<"e","d","g","e",":","/","/">>,
       <<"a","b","o","u","t",":">>,
       <<"d","a","t","a",":">> >>

\* PAGE_OK (injected.js:8), for a page loaded at url u
PageOkUrls == {u \in Urls : startsWith(UrlText(u), S_PAGE_PREFIX)}

\* shouldIgnoreUrl(url) (injected.js:15); s: the characters of a string argument
shouldIgnoreUrl(s) ==
    /\ s # <<>>
    /\ \E k \in 1..Len(IGNORED_PREFIXES) : startsWith(toLowerCase(s), IGNORED_PREFIXES[k])

\* the least position from i on where s has a character of stop, Len(s) + 1 if none
RECURSIVE indexOfAny(_, _, _)
indexOfAny(s, stop, i) ==
    IF i > Len(s) \/ s[i] \in stop THEN i ELSE indexOfAny(s, stop, i + 1)

\* the length of the scheme and "//" of an absolute http(s) URL, 0 for another string
schemeLen(s) ==
    IF startsWith(toLowerCase(s), S_HTTPS) THEN Len(S_HTTPS)
    ELSE IF startsWith(toLowerCase(s), S_HTTP) THEN Len(S_HTTP)
    ELSE 0

\* new URL(s).hostname and .pathname for an absolute http(s) URL without
\* credentials and port
absHostname(s) ==
    toLowerCase(SubSeq(s, schemeLen(s) + 1,
                       indexOfAny(s, {"/", "?", "#"}, schemeLen(s) + 1) - 1))
absPathname(s) ==
    LET from == indexOfAny(s, {"/", "?", "#"}, schemeLen(s) + 1)
        path == SubSeq(s, from, indexOfAny(s, {"?", "#"}, from) - 1)
    IN  IF path = <<>> THEN <<"/">> ELSE path

\* new URL(s, base) (injected.js:32) for the forms of reference the page uses:
\* an absolute http(s) URL, a path-absolute reference, the empty string; base
\* is the absolute URL of the page
urlHostname(s, base) ==
    IF schemeLen(s) > 0 THEN absHostname(s) ELSE absHostname(base)
urlPathname(s, base) ==
    IF schemeLen(s) > 0 THEN absPathname(s)
    ELSE IF s = <<>> THEN absPathname(base)
    ELSE SubSeq(s, 1, indexOfAny(s, {"?", "#"}, 1) - 1)

S_POIT_REST_SOK == <<"/","p","o","i","t","/","r","e","s","t","/","s","o","k">>
S_KUNG          == <<"k","u","n","g">>

\* [a-z] under the i flag
IsAsciiLetter(c) ==
    \E k \in 1..26 : LowerLetters[k] = c \/ UpperLetters[k] = c

\* /\/poit\/rest\/sok[a-z]*?kung[a-z]*/i .test(p) (injected.js:36)
SokKungRe(p) ==
    \E i \in 1..Len(p) :
        /\ occursAt(toLowerCase(p), S_POIT_REST_SOK, i)
        /\ \E j \in (i + Len(S_POIT_REST_SOK))..Len(p) :
              /\ \A k \in (i + Len(S_POIT_REST_SOK))..(j - 1) : IsAsciiLetter(p[k])
              /\ occursAt(toLowerCase(p), S_KUNG, j)

\* isTargetUrl(url) (injected.js:27), window.location.href being base
isTargetUrl(s, base) ==
    /\ ~shouldIgnoreUrl(s)
    /\ urlHostname(s, base) = TARGET_HOST
    /\ SokKungRe(urlPathname(s, base))

\* the strings a wrapper may be handed: the request URLs and the empty string
UrlArgs == ReqUrls \cup {"empty"}

\* shouldIgnoreUrl and isTargetUrl, computed once for every string and page
IgnoredUrls == {u \in UrlArgs : shouldIgnoreUrl(UrlText(u))}
TargetUrlsAt ==
    [b \in Urls |-> {u \in UrlArgs : isTargetUrl(UrlText(u), UrlText(b))}]

\* ---- responses

S_APP_JSON == <<"a","p","p","l","i","c","a","t","i","o","n","/","j","s","o","n">>
S_CT_JSON  == <<"A","p","p","l","i","c","a","t","i","o","n","/","J","S","O","N",";"," ","c","h","a","r","s","e","t","=","u","t","f","-","8">>
S_CT_HTML  == <<"t","e","x","t","/","h","t","m","l">>

\* the content-type header of a response: names, CtText gives the characters
\* ("none": the header is absent)
ContentTypes == {"json", "html", "none"}
CtText(c) ==
    CASE c = "json" -> S_CT_JSON
      [] c = "html" -> S_CT_HTML
      [] c = "none" -> <<>>

\* ct && ct.toLowerCase().includes("application/json") (injected.js:81, 153)
JsonTypes == {c \in ContentTypes : CtText(c) # <<>> /\ includes(toLowerCase(CtText(c)), S_APP_JSON)}

S_NAMN_A ==<<"E","x","e","m","p","e","l"," ","T","e","k","n","i","k"," ","A","B">>
S_NAMN_B ==<<"E","x","e","m","p","e","l"," ","H","o","l","d","i","n","g"," ","A","B">>

\* the body texts of a response: "list" is the JSON text of a hit list,
\* "broken" is no JSON text
Bodies == {"list", "broken"}
HitList ==
    Arr(<< Entry(Str(S_NAMN_A), Undefined, Undefined, Undefined, Str(S_K100), Undefined),
           Entry(Str(S_NAMN_B), Undefined, Undefined, Undefined, Str(S_K200), Undefined) >>)

\* JSON.parse(text): ok, or it throws
JsonParse(b) ==
    IF b = "list" THEN [ok |-> TRUE, value |-> HitList]
                  ELSE [ok |-> FALSE, value |-> Undefined]

\* { raw_text: String(txt || "") }
RawText(b) == [t |-> "object", data |-> Undefined, raw_text |-> b]

\* Body.text() of a Response: rejects when the body has been read already
bodyText(bodyUsed, b) ==
    IF bodyUsed THEN [ok |-> FALSE, value |-> Undefined]
                ELSE [ok |-> TRUE, value |-> b]

\* ---- the fetch wrapper (injected.js:62)

\* requestUrl (injected.js:66); kind: the page passes the string u, or a Request
\* or URL object for u without a string-valued url property
fetchRequestUrl(u, kind) == IF kind = "string" THEN u ELSE "empty"

\* the values bridgeSave is called with for the clone of a response with header
\* ct and body b (injected.js:79-108); json() reads the clone's body, so the
\* text() of its catch handler finds the body read
fetchCaptured(ct, b) ==
    IF ct \in JsonTypes
    THEN IF JsonParse(b).ok THEN << JsonParse(b).value >>
         ELSE IF bodyText(TRUE, b).ok THEN << RawText(bodyText(TRUE, b).value) >>
         ELSE <<>>
    ELSE IF bodyText(FALSE, b).ok THEN << RawText(bodyText(FALSE, b).value) >>
    ELSE <<>>

\* the then-callback reading the response itself instead of a clone
fetchThen_ReadsResponse(shouldCapture, cloneThrows) ==
    [outcome |-> "fulfilled", object |-> "response",
     reading |-> shouldCapture /\ ~cloneThrows,
     responseBodyUsed |-> shouldCapture /\ ~cloneThrows]

\* the then-callback (injected.js:75-114): what the wrapper's promise settles
\* with, whether a read of the clone was started, whether the body of the
\* response itself was read; cloneThrows: response.clone() throws
fetchThen(shouldCapture, cloneThrows) ==
    [outcome |-> "fulfilled", object |-> "response",
     reading |-> shouldCapture /\ ~cloneThrows,
     responseBodyUsed |-> FALSE]

\* ---- the XHR wrappers (injected.js:128, 140)

ResponseTypes == {"", "json", "blob"}

\* the values bridgeSave is called with by one loadend listener
\* (injected.js:143-168); url: this.__kv_url
xhrCaptured(url, base, ct, b, responseType) ==
    IF url \in {"unset", "empty"} \/ url \notin TargetUrlsAt[base] THEN <<>>
    ELSE IF responseType \in {"", "text"}
    THEN IF ct \in JsonTypes /\ JsonParse(b).ok THEN << JsonParse(b).value >>
         ELSE << RawText(b) >>
    ELSE IF responseType = "json"
    THEN IF JsonParse(b).ok THEN << JsonParse(b).value >> ELSE <<>>
    ELSE <<>>

\* ---- bridgeSave (injected.js:43)

BridgeMsg(payload) ==
    [source |-> "window", kv |-> TRUE, type |-> "KV_SAVE_JSON", payload |-> payload]

\* bridgeSave(payload) (injected.js:43): the window messages it posts;
\* postFails: window.postMessage throws
bridgeSave(payload, postFails) ==
    IF postFails THEN <<>> ELSE << BridgeMsg(payload) >>

\* bridgeSave({ url, data }) for each of datas in turn
RECURSIVE bridgeSaveAll(_, _, _)
bridgeSaveAll(url, datas, postFails) ==
    IF datas = <<>> THEN <<>>
    ELSE bridgeSave([url |-> url, data |-> Head(datas)], postFails)
            \o bridgeSaveAll(url, Tail(datas), postFails)

\* n copies of seq, one after another
RECURSIVE Repeat(_, _)
Repeat(seq, n) == IF n = 0 THEN <<>> ELSE seq \o Repeat(seq, n - 1)

\* the payloads of the messages msgs
Posted(msgs) == [k \in 1..Len(msgs) |-> msgs[k].payload]

\* loadend listeners the XMLHttpRequest object is followed up to
MaxListeners == 2

\* the URLs the page opens the XMLHttpRequest object with
XhrUrls == {"api", "other_path", "data_url"}

\* nothing is under way on the capture path; the page makes its next call, or
\* the next foreign message arrives, when what the last one caused has drained
Quiet == bridge = <<>> /\ relayInbox = <<>> /\ httpRequests = <<>>

\* how the original fetch settles: it rejects, or fulfils with a response
Settlements ==
    {[outcome |-> "rejected", ct |-> "none", body |-> "none"]}
        \cup {[outcome |-> "fulfilled", ct |-> c, body |-> b] : c \in ContentTypes, b \in Bodies}

\* the arguments the page calls fetch with: a string, or an object without a
\* string-valued url property (a URL object)
FetchArgs ==
    {[url |-> u, kind |-> "string"] : u \in ReqUrls} \cup {[url |-> "api", kind |-> "object"]}

\* no call of the page is under way; the page makes its calls one after another
Idle == call.stage \in {"none", "done"}

\* the record of a call
NewCall(api, url, requestUrl, wrapped, shouldCapture, faults) ==
    [api |-> api, url |-> url, requestUrl |-> requestUrl, wrapped |-> wrapped,
     shouldCapture |-> shouldCapture, stage |-> "pending", ct |-> "none",
     body |-> "none", responseType |-> "none", listeners |-> 0, orig |-> "pending",
     page |-> "pending", pageObject |-> "none", responseBodyUsed |-> FALSE,
     faults |-> faults]

\* the page calls window.fetch(a) (injected.js:62-75)
FetchCall(a) ==
    /\ loadHref \in PageOkUrls
    /\ Idle
    /\ Quiet
    /\ LET requestUrl == fetchRequestUrl(a.url, a.kind)
           ignored    == requestUrl \in IgnoredUrls
       IN  call' = NewCall("fetch", a.url, requestUrl, ~ignored,
                           ~ignored /\ requestUrl \in TargetUrlsAt[href], FALSE)
    /\ posted' = <<>>
    /\ lastEvent' = NoEvent
    /\ UNCHANGED <<xhr, bridge, orchVars, sanVars, peerVars, relayVars>>

\* the promise of the original fetch settles with r; for a wrapped call the
\* then-callback runs (injected.js:75-114)
FetchSettle(r, cloneThrows) ==
    /\ call.api = "fetch"
    /\ call.stage = "pending"
    /\ cloneThrows => (r.outcome = "fulfilled" /\ call.shouldCapture)
    /\ call' =
         IF r.outcome = "rejected"
         THEN [call EXCEPT !.stage = "done", !.orig = "rejected", !.page = "rejected"]
         ELSE IF ~call.wrapped
         THEN [call EXCEPT !.stage = "done", !.ct = r.ct, !.body = r.body,
                           !.orig = "fulfilled", !.page = "fulfilled",
                           !.pageObject = "response"]
         ELSE LET t == fetchThen(call.shouldCapture, cloneThrows)
              IN  [call EXCEPT !.stage = IF t.reading THEN "reading" ELSE "done",
                               !.ct = r.ct, !.body = r.body,
                               !.orig = "fulfilled", !.page = t.outcome,
                               !.pageObject = t.object,
                               !.responseBodyUsed = t.responseBodyUsed,
                               !.faults = cloneThrows]
    /\ UNCHANGED <<xhr, bridge, posted, lastEvent, orchVars, sanVars, peerVars, relayVars>>

\* the read of the clone's body completes (injected.js:82-107)
FetchRead(postFails) ==
    /\ call.api = "fetch"
    /\ call.stage = "reading"
    /\ LET datas == fetchCaptured(call.ct, call.body)
           msgs  == bridgeSaveAll(call.requestUrl, datas, postFails)
       IN  /\ postFails => datas # <<>>
           /\ bridge' = bridge \o msgs
           /\ posted' = posted \o Posted(msgs)
           /\ call' = [call EXCEPT !.stage = "done", !.faults = postFails]
    /\ UNCHANGED <<xhr, lastEvent, orchVars, sanVars, peerVars, relayVars>>

\* the page calls xhr.open(method, u) (injected.js:128); origThrows: the
\* original open throws; setThrows: the assignment of __kv_url throws
XhrOpen(u, origThrows, setThrows) ==
    /\ loadHref \in PageOkUrls
    /\ Idle
    /\ setThrows => u \notin IgnoredUrls
    /\ xhr' = [xhr EXCEPT
                 !.kv_url = IF u \in IgnoredUrls \/ setThrows THEN @ ELSE u,
                 !.openUrl = IF origThrows THEN @ ELSE u,
                 !.origReturn = IF origThrows THEN "throws" ELSE "undefined",
                 !.pageReturn = IF origThrows THEN "throws" ELSE "undefined"]
    /\ lastEvent' = NoEvent
    /\ UNCHANGED <<call, bridge, posted, orchVars, sanVars, peerVars, relayVars>>

\* the page calls xhr.send() (injected.js:140); addThrows: addEventListener
\* throws; the original send throws unless the object is opened
XhrSend(addThrows) ==
    /\ loadHref \in PageOkUrls
    /\ Idle
    /\ Quiet
    /\ xhr.listeners < MaxListeners
    /\ LET opened == xhr.openUrl # "none"
       IN  /\ xhr' = [xhr EXCEPT
                        !.listeners = IF addThrows THEN @ ELSE @ + 1,
                        !.origReturn = IF opened THEN "undefined" ELSE "throws",
                        !.pageReturn = IF opened THEN "undefined" ELSE "throws"]
           /\ IF opened
              THEN /\ call' = NewCall("xhr", xhr.openUrl, xhr.kv_url, TRUE, FALSE,
                                      addThrows)
                   /\ posted' = <<>>
              ELSE UNCHANGED <<call, posted>>
    /\ lastEvent' = NoEvent
    /\ UNCHANGED <<bridge, orchVars, sanVars, peerVars, relayVars>>

\* the request of the object ends with a response: every loadend listener added
\* so far runs (injected.js:142-172)
XhrLoadend(ct, b, responseType, postFails) ==
    /\ call.api = "xhr"
    /\ call.stage = "pending"
    /\ LET datas == Repeat(xhrCaptured(xhr.kv_url, href, ct, b, responseType),
                           xhr.listeners)
           msgs  == bridgeSaveAll(xhr.kv_url, datas, postFails)
       IN  /\ postFails => datas # <<>>
           /\ bridge' = bridge \o msgs
           /\ posted' = posted \o Posted(msgs)
           /\ call' = [call EXCEPT !.stage = "done", !.ct = ct, !.body = b,
                                   !.responseType = responseType,
                                   !.listeners = xhr.listeners,
                                   !.orig = "fulfilled", !.page = "fulfilled",
                                   !.pageObject = "response",
                                   !.faults = @ \/ postFails]
    /\ xhr' = [xhr EXCEPT !.openUrl = "none"]
    /\ UNCHANGED <<lastEvent, orchVars, sanVars, peerVars, relayVars>>

----------------------------------------------------------------------------
(* content.js: the Bridge listener *)

\* the listener without the test of ev.source (content.js:19)
onWindowMessage_AnySource(msg) ==
    IF /\ msg.kv
       /\ msg.type = "KV_SAVE_JSON"
       /\ msg.payload # NoPayload
    THEN << [type |-> "KV_SAVE_JSON", payload |-> msg.payload] >>
    ELSE <<>>

\* the listener sending on the type the window message carries, instead of the
\* literal of content.js:26
onWindowMessage_SendsTypeOn(msg) ==
    IF /\ msg.source = "window"
       /\ msg.kv
       /\ msg.payload # NoPayload
    THEN << [type |-> msg.type, payload |-> msg.payload] >>
    ELSE <<>>

\* what the "message" listener of content.js sends the Relay for the event
\* data msg (content.js:17-35)
onWindowMessage(msg) ==
    IF /\ msg.source = "window"
       /\ msg.kv
       /\ msg.type = "KV_SAVE_JSON"
       /\ msg.payload # NoPayload
    THEN << [type |-> "KV_SAVE_JSON", payload |-> msg.payload] >>
    ELSE <<>>

\* window messages that are not bridgeSave's: a frame's, the page's own scripts'
ForeignMessages ==
    {[source |-> "frame", kv |-> TRUE, type |-> "KV_SAVE_JSON",
      payload |-> [url |-> "other_path", data |-> Num]],
     [source |-> "window", kv |-> FALSE, type |-> "KV_SAVE_JSON",
      payload |-> [url |-> "other_path", data |-> Num]],
     [source |-> "window", kv |-> TRUE, type |-> "OTHER",
      payload |-> [url |-> "other_path", data |-> Num]],
     [source |-> "window", kv |-> TRUE, type |-> "KV_SAVE_JSON", payload |-> NoPayload],
     [source |-> "window", kv |-> TRUE, type |-> "KV_SAVE_JSON",
      payload |-> [url |-> "other_path", data |-> Num]]}

\* window messages a script of the page makes up to pass for a capture of the
\* orchestrator: the record of an announcement under the type of the capture
\* message, with the marker, and under the type the listener forwards
ForgedMessages ==
    {[source |-> "window", kv |-> TRUE, type |-> "KV_SAVE_KUNGORELSE",
      payload |-> KungorelseMsg("detail_K200", NormalizedIdOf["detail_K200"], 600).payload],
     [source |-> "window", kv |-> FALSE, type |-> "KV_SAVE_KUNGORELSE",
      payload |-> KungorelseMsg("detail_K200", NormalizedIdOf["detail_K200"], 600).payload],
     [source |-> "window", kv |-> TRUE, type |-> "KV_SAVE_JSON",
      payload |-> [url |-> "detail_K200", kungorelseId |-> NormalizedIdOf["detail_K200"],
                   textLen |-> 600, data |-> Undefined]]}

\* a message event is queued on the window of the tab
PageMessage(m) ==
    /\ Quiet
    /\ bridge' = Append(bridge, m)
    /\ lastEvent' = NoEvent
    /\ UNCHANGED <<xhr, call, posted, orchVars, sanVars, peerVars, relayVars>>

\* the "message" listener of content.js runs for the next event (content.js:17)
ContentOnMessage ==
    /\ bridge # <<>>
    /\ bridge' = Tail(bridge)
    /\ relayInbox' = relayInbox \o onWindowMessage(Head(bridge))
    /\ lastEvent' = IF onWindowMessage(Head(bridge)) = <<>> THEN "ignored" ELSE NoEvent
    /\ UNCHANGED <<xhr, call, posted, orchVars, sanVars, peerVars, httpRequests, bgBlocked, bgFailed>>

\* the request at the head of those under way reaches the Collector and its
\* response is read (background.js:92, 113)
RequestDone ==
    /\ httpRequests # <<>>
    /\ httpRequests' = Tail(httpRequests)
    /\ UNCHANGED <<relayInbox, bgBlocked, bgFailed, orchVars, sanVars, peerVars, hookVars>>

\* RequestFail issuing the request again in its catch handler
RequestFail_Retries ==
    /\ httpRequests # <<>>
    /\ bgFailed < MaxRelay
    /\ httpRequests' = Append(Tail(httpRequests), Head(httpRequests))
    /\ bgFailed' = bgFailed + 1
    /\ UNCHANGED <<relayInbox, bgBlocked, orchVars, sanVars, peerVars, hookVars>>

\* the request at the head of those under way fails: fetch rejects (the
\* Collector is unreachable), the catch handler logs the error
\* (background.js:93, 115) and the handler of the message ends
RequestFail ==
    /\ httpRequests # <<>>
    /\ bgFailed < MaxRelay
    /\ httpRequests' = Tail(httpRequests)
    /\ bgFailed' = bgFailed + 1
    /\ UNCHANGED <<relayInbox, bgBlocked, orchVars, sanVars, peerVars, hookVars>>

----------------------------------------------------------------------------
(* The tab: one content-script lifetime *)

\* the tab and the background context when content.js has run to its end on a
\* freshly loaded page
InitTab ==
    /\ href \in Urls
    /\ IS_KUNGORELSE = isKungorelsePage
    /\ IS_ENSKILD = isEnskildPage
    /\ lastUrl = href
    /\ enskildHandled = IS_ENSKILD
    /\ capturedKungorelseIds = {}
    /\ pendingCaptures = {}
    /\ timers = (IF IS_KUNGORELSE \/ IS_ENSKILD
                 THEN One(Task("initialCheck", "none", "none", <<>>, 0)) ELSE NoTimers)
                \o (IF IS_ENSKILD
                     THEN One(Task("dwell", "none", "none", <<>>, 0)) ELSE NoTimers)
    /\ loadHref = href
    /\ prevHref = "none"
    /\ navCount = 0
    /\ forwarded = <<>>
    /\ aliasClicks = 0
    /\ rejectedHere = {}
    /\ duplicateSkips = {}
    /\ lastCheck = NoCheck
    /\ relayInbox = <<>>
    /\ httpRequests = <<>>
    /\ bgBlocked = {}
    /\ bgFailed = 0
    /\ xhr = [kv_url |-> "unset", openUrl |-> "none", listeners |-> 0,
              origReturn |-> "none", pageReturn |-> "none"]
    /\ call = [NewCall("none", "none", "none", FALSE, FALSE, FALSE)
                  EXCEPT !.stage = "none"]
    /\ bridge = <<>>
    /\ posted = <<>>
    /\ lastEvent = NoEvent
    /\ peer = NoPeer

Init ==
    /\ InitTab
    /\ sanItems = NotRun
    /\ sanCleaned = NotRun
    /\ sanAgain = NotRun

Next ==
    \/ \E t \in TimerSet(timers) : InitialCheck(t)
    \/ \E t \in TimerSet(timers) : AfterClickInitial(t)
    \/ \E t \in TimerSet(timers) : AfterClickPoll(t)
    \/ \E t \in TimerSet(timers), d \in Doms : DwellDone(t, d)
    \/ \E t \in TimerSet(timers), to \in Urls : ClickLink(t, to)
    \/ \E t \in TimerSet(timers), d \in Doms : CaptureCheck(t, d)
    \/ PollTick
    \/ \E u \in Urls : Navigate(u)
    \/ ObserverCallback

Spec == Init /\ [][Next]_vars

\* the tab with its interval timer running: setInterval (content.js:227) keeps
\* calling the poller, so a tick that would see a new URL is not put off forever
FairSpec == Spec /\ WF_vars(PollTick)

\* the tab of Spec, loaded on the detail page of K100-25, in an application that
\* also takes it to the URLs of CaseUrls
InitEntry ==
    /\ Init
    /\ href = "detail_K100"

NextEntry ==
    \/ Next
    \/ \E u \in CaseUrls : Navigate(u)

EntrySpec == InitEntry /\ [][NextEntry]_vars

\* the tab of Spec, loaded on the detail page of K100-25, whose capture checks
\* also find the documents of EdgeDoms
NextContent ==
    \/ Next
    \/ \E t \in TimerSet(timers), d \in EdgeDoms : CaptureCheck(t, d)

ContentSpec == InitEntry /\ [][NextContent]_vars

\* the tab with every callback of the content script running when it is its
\* turn: the interval timer, the timeouts and await continuations, and the
\* MutationObserver callback while the page keeps changing its document
LiveSpec ==
    /\ Spec
    /\ WF_vars(PollTick)
    /\ WF_vars(ObserverCallback)
    /\ WF_vars(\E t \in TimerSet(timers) : InitialCheck(t))
    /\ WF_vars(\E t \in TimerSet(timers) : AfterClickInitial(t))
    /\ WF_vars(\E t \in TimerSet(timers) : AfterClickPoll(t))
    /\ WF_vars(\E t \in TimerSet(timers), d \in Doms : DwellDone(t, d))
    /\ WF_vars(\E t \in TimerSet(timers), to \in Urls : ClickLink(t, to))
    /\ WF_vars(\E t \in TimerSet(timers), d \in Doms : CaptureCheck(t, d))

\* the tab loaded on the detail page of K100-25 and taken in place to the
\* listing and the detail pages only, with its interval timer and its timeouts
\* running when it is their turn
NextRelease ==
    \/ \E t \in TimerSet(timers) : InitialCheck(t)
    \/ \E t \in TimerSet(timers) : AfterClickInitial(t)
    \/ \E t \in TimerSet(timers), d \in Doms : DwellDone(t, d)
    \/ \E t \in TimerSet(timers), to \in Urls : ClickLink(t, to)
    \/ \E t \in TimerSet(timers), d \in Doms : CaptureCheck(t, d)
    \/ PollTick
    \/ \E u \in Urls \ EnskildReUrls : Navigate(u)

ReleaseSpec ==
    /\ InitEntry
    /\ [][NextRelease]_vars
    /\ WF_vars(PollTick)
    /\ WF_vars(\E t \in TimerSet(timers) : InitialCheck(t))
    /\ WF_vars(\E t \in TimerSet(timers) : AfterClickInitial(t))
    /\ WF_vars(\E t \in TimerSet(timers), d \in Doms : DwellDone(t, d))
    /\ WF_vars(\E t \in TimerSet(timers), to \in Urls : ClickLink(t, to))
    /\ WF_vars(\E t \in TimerSet(timers), d \in Doms : CaptureCheck(t, d))

\* the tab of ReleaseSpec with the listener of the Bridge and the Relay behind
\* it, on a page whose scripts post the messages of ForgedMessages
NextForged ==
    \/ NextRelease
    \/ \E m \in ForgedMessages : PageMessage(m)
    \/ ContentOnMessage
    \/ RelayHandle
    \/ RequestDone

ForgedSpec == InitEntry /\ [][NextForged]_vars

\* two tabs: the tab of ReleaseSpec, a second tab opened on a detail page, and
\* the Relay both send their captures to
NextTwoTabs ==
    \/ NextRelease
    \/ \E u \in Urls : PeerOpen(u)
    \/ PeerInitialCheck
    \/ \E d \in Doms : PeerCaptureCheck(d)
    \/ RelayHandle
    \/ RequestDone

TwoTabSpec == InitEntry /\ [][NextTwoTabs]_vars

----------------------------------------------------------------------------
(* The Relay alone, fed with arbitrary messages *)

S_NAMN_DUP   == <<"e","x","e","m","p","e","l"," "," ","t","e","k","n","i","k","2"," ","a","b">>
S_NAMN_C     == <<"A","n","n","a","t"," ","A","B">>
S_NAMN_D     == <<"T","r","e","d","j","e"," ","A","B">>
S_NAMN_FOR   == <<"F","Ö","R","E","N","I","N","G"," ","X">>
S_TITLE_HOLD == <<"H","o","l","d","i","n","g">>
S_ID_1234    == <<"K","1","2","3","4","-","2","5">>
S_ID_1234_LC == <<" ","k","1","2","3","4","/","2","5"," ">>

\* a hit list whose entries have the id of the first entry of HitList, and a
\* name that normalizes to the name of that entry
SecondList ==
    Arr(<< Entry(Str(S_NAMN_C), Undefined, Undefined, Undefined, Str(S_K100), Undefined),
           Entry(Undefined, Str(S_NAMN_DUP), Undefined, Undefined, Undefined, Str(S_K200)) >>)

\* the InterceptedCalls tabs send: the list as the response body, or under the
\* data property of the response object
ListMessages ==
    {[type |-> "KV_SAVE_JSON", payload |-> [url |-> "api", data |-> d]] :
        d \in {HitList, SecondList, [t |-> "object", data |-> SecondList]}}

\* a tab whose content script was loaded on the listing page (nothing installed)
InitRelay ==
    /\ Init
    /\ href = "listing"

NextRelay ==
    \/ \E m \in RelayMessages \cup ListMessages : RelayReceive(m)
    \/ RelayHandle
    \/ RequestDone
    \/ RequestFail

RelaySpec == InitRelay /\ [][NextRelay]_vars

----------------------------------------------------------------------------
(* The capture path of intercepted calls: page, Hook Layer, Bridge, Relay *)

\* a tab that stays on the listing page
InitHook ==
    /\ Init
    /\ href = "listing"

NextHook ==
    \/ \E a \in FetchArgs : FetchCall(a)
    \/ \E r \in Settlements, cloneThrows \in BOOLEAN : FetchSettle(r, cloneThrows)
    \/ \E postFails \in BOOLEAN : FetchRead(postFails)
    \/ \E u \in XhrUrls, origThrows \in BOOLEAN, setThrows \in BOOLEAN :
          XhrOpen(u, origThrows, setThrows)
    \/ \E addThrows \in BOOLEAN : XhrSend(addThrows)
    \/ \E ct \in ContentTypes, b \in Bodies, responseType \in ResponseTypes,
          postFails \in BOOLEAN : XhrLoadend(ct, b, responseType, postFails)
    \/ \E m \in ForeignMessages : PageMessage(m)
    \/ ContentOnMessage
    \/ RelayHandle
    \/ RequestDone

HookSpec == InitHook /\ [][NextHook]_vars

----------------------------------------------------------------------------
(* The Sanitizer alone, called on arbitrary lists *)

\* the entries the lists are made of: objects with the name and the id under
\* each of the property names the sanitizer reads, with and without keyword,
\* with equal and different normalized names and ids, with a name and no id,
\* an id and no name, neither, and a non-object
EntryPool ==
    { Entry(Str(S_NAMN_A), Undefined, Undefined, Undefined, Str(S_ID_1234), Undefined),
      Entry(Str(S_NAMN_B), Undefined, Undefined, Undefined, Str(S_ID_1234), Undefined),
      Entry(Str(S_NAMN_DUP), Undefined, Undefined, Undefined, Str(S_K200), Undefined),
      Entry(Undefined, Undefined, Str(S_NAMN_C), Undefined, Undefined, Str(S_ID_1234_LC)),
      Entry(Undefined, Str(S_NAMN_FOR), Undefined, Undefined, Undefined, Undefined),
      Entry(Str(S_NAMN_D), Undefined, Undefined, Str(S_TITLE_HOLD), Undefined, Undefined),
      Entry(Undefined, Undefined, Undefined, Undefined, Undefined, Undefined),
      Entry(Undefined, Undefined, Undefined, Undefined, Str(S_ID_1234), Undefined),
      Num }

\* entries per list
MaxItems == 3

\* the object e as the ref-th object of a list: objects are told apart by ref
WithRef(e, ref) ==
    [f \in DOMAIN e \cup {"ref"} |-> IF f = "ref" THEN ref ELSE e[f]]

\* the lists of k entries of the pool
ListsOf(k) ==
    {[i \in 1..k |-> WithRef(f[i], i)] : f \in [1..k -> EntryPool]}

\* the arguments sanitizeCompanyList is called with: arrays, and a non-array
SanInputs ==
    {Arr(xs) : xs \in UNION {ListsOf(k) : k \in 0..MaxItems}} \cup {Num}

InitSan ==
    /\ InitTab
    /\ href = "listing"
    /\ sanItems \in SanInputs
    /\ sanCleaned = NotRun
    /\ sanAgain = NotRun

\* sanitizeCompanyList(items) is called (background.js:67, 76)
SanitizeList ==
    /\ sanCleaned = NotRun
    /\ sanCleaned' = sanitizeCompanyList(sanItems)
    /\ UNCHANGED <<sanItems, sanAgain, orchVars, relayVars, hookVars, peerVars>>

\* sanitizeCompanyList is called on the value it returned
SanitizeAgain ==
    /\ sanCleaned # NotRun
    /\ sanAgain = NotRun
    /\ sanAgain' = sanitizeCompanyList(sanCleaned)
    /\ UNCHANGED <<sanItems, sanCleaned, orchVars, relayVars, hookVars, peerVars>>

NextSan ==
    \/ SanitizeList
    \/ SanitizeAgain

SanSpec == InitSan /\ [][NextSan]_vars

----------------------------------------------------------------------------
(* Claims *)

\* the alias-page pattern of the specification: the url contains /enskild/,
\* in any letter case
AliasPatternUrls ==
    {u \in Urls \cup UrlArgs : includes(toLowerCase(UrlText(u)), <<"/","e","n","s","k","i","l","d","/">>)}

\* how many CaptureRecords the orchestrator has forwarded for id
ForwardedFor(id) ==
    Cardinality({i \in 1..Len(forwarded) : forwarded[i].kungorelseId = id})

\* the poller has seen the current URL (or was never installed) and no timer is left
Quiescent ==
    /\ timers = NoTimers
    /\ ~((IS_KUNGORELSE \/ IS_ENSKILD) /\ href # lastUrl)

\* C1: the orchestrator never sends the Relay a CaptureRecord whose url matches
\* the alias-page pattern.
C1_NoAliasUrlForwarded ==
    \A i \in 1..Len(forwarded) : forwarded[i].url \notin AliasPatternUrls

\* C1 witness: a capture check ran while the tab showed an alias-pattern URL that
\* passed the page re-verification, and the final check stopped it.
C1_Witness ==
    /\ lastCheck.outcome = "blockedFinal"
    /\ href \in AliasPatternUrls

\* C2: no request under way to the Collector, on POST /save or on
\* POST /save_kungorelse, carries a payload whose url matches the alias-page
\* pattern.
C2_NoAliasUrlToCollector ==
    \A i \in 1..Len(httpRequests) : httpRequests[i].body.url \notin AliasPatternUrls

\* C3: when the Relay handles a KV_SAVE_KUNGORELSE message whose payload url
\* matches the alias-page pattern, it issues no HTTP request.
C3_AliasMessageDropped ==
    [][(/\ relayInbox # <<>>
        /\ relayInbox' = Tail(relayInbox)
        /\ Head(relayInbox).type = "KV_SAVE_KUNGORELSE"
        /\ Head(relayInbox).payload # NoPayload
        /\ Head(relayInbox).payload.url \in AliasPatternUrls)
       => httpRequests' = httpRequests]_vars

\* C3 witness: the Relay has handled and dropped an alias-page message, and has
\* issued a request for another message.
C3_Witness ==
    /\ bgBlocked # {}
    /\ httpRequests # <<>>

\* C4: at most one CaptureRecord is forwarded for any canonical id.
C4_AtMostOncePerId ==
    \A i, j \in 1..Len(forwarded) :
        forwarded[i].kungorelseId = forwarded[j].kungorelseId => i = j

\* C4 witness: an id was captured, the tab left its detail page and came back,
\* the poller classified the page again, and every timer has run.
C4_Witness ==
    /\ href = "detail_K100"
    /\ S_K100 \in capturedKungorelseIds
    /\ navCount >= 2
    /\ Quiescent
    /\ ForwardedFor(S_K100) = 1

\* C5: no id is in both the captured set and the pending set.
C5_CapturedPendingDisjoint ==
    capturedKungorelseIds \cap pendingCaptures = {}

\* C5 witness: an id is captured while another is pending, and the tab shows
\* the detail page of the captured one again.
C5_Witness ==
    /\ S_K100 \in capturedKungorelseIds
    /\ pendingCaptures # {}
    /\ href = "detail_K100"

\* C6: Listing -> EnskildAlias(K100-25) -> KungorelseDetail(K100-25) in one
\* content-script lifetime, every classification event and timer having run and
\* no capture check having found the content unready, ends with exactly one
\* CaptureRecord forwarded for K100-25.
C6_ScenarioExactlyOne ==
    (/\ loadHref = "listing"
     /\ prevHref = "alias_K100"
     /\ href = "detail_K100"
     /\ navCount = 2
     /\ Quiescent
     /\ lastCheck.outcome \notin {"tooShort", "linkPage"})
    => ForwardedFor(S_K100) = 1

\* the calls of interest of the specification: the URL, an absolute http(s) URL
\* or a path-absolute reference resolved against the page at b, has the
\* monitored host and a path matching the endpoint pattern
OfInterestAt ==
    [b \in Urls |->
        {u \in ReqUrls : /\ urlHostname(UrlText(u), UrlText(b)) = TARGET_HOST
                         /\ SokKungRe(urlPathname(UrlText(u), UrlText(b)))
                         /\ (schemeLen(UrlText(u)) > 0 \/ startsWith(UrlText(u), <<"/">>))}]

\* the latest call has been answered and every handler it set off has run
Answered == call.stage = "done" /\ call.orig = "fulfilled"

\* C7: for a fetch or XHR call whose resolved URL has another host than the
\* monitored one, or whose path does not match the endpoint pattern, the Hook
\* Layer posts no InterceptedCall.
C7_NoPostForOtherCalls ==
    (call.api # "none" /\ call.url \notin OfInterestAt[href]) => posted = <<>>

\* C8: each observed response to a call of interest yields exactly one
\* InterceptedCall, also in repeated open()/send() cycles on the same XHR
\* object. Stated for the responses the Hook Layer decodes without failure: the
\* URL was passed as a string, XHR responses are text responses, nothing threw,
\* and the body is what its content type declares.
C8_OnePostPerResponse ==
    (/\ Answered
     /\ call.url \in OfInterestAt[href]
     /\ call.requestUrl = call.url
     /\ ~call.faults
     /\ call.api = "xhr" => call.responseType = ""
     /\ call.ct \in JsonTypes => JsonParse(call.body).ok)
    => Len(posted) = 1

\* C9: for a response of interest that declares a JSON content type and whose
\* body does not decode as JSON, one InterceptedCall carrying the raw-text
\* wrapper of the body is posted, on the fetch path and on the XHR path (a text
\* response, on the object's first send), and the page gets the response.
C9_DecodeFailureRawText ==
    (/\ Answered
     /\ call.url \in OfInterestAt[href]
     /\ call.requestUrl = call.url
     /\ ~call.faults
     /\ call.api = "xhr" => (call.responseType = "" /\ call.listeners = 1)
     /\ call.ct \in JsonTypes
     /\ ~JsonParse(call.body).ok)
    => /\ posted = << [url |-> call.url, data |-> RawText(call.body)] >>
       /\ call.page = "fulfilled"

Sanitized == sanCleaned # NotRun /\ sanItems.t = "array"

\* the ref-th object of the incoming list is in the list xs
HasRef(xs, ref) == \E k \in 1..Len(xs) : xs[k].ref = ref

\* the name of an entry as the specification finds it: the first of namn,
\* company_name, companyName, title that holds a non-empty string
NameOfEntry(e) ==
    LET fields == << e.namn, e.company_name, e.companyName, e.title >>
        set    == {k \in 1..4 : fields[k].t = "string" /\ fields[k].s # <<>>}
    IN  IF set = {} THEN <<>>
        ELSE fields[CHOOSE k \in set : \A m \in set : k <= m].s

\* the identifier of an entry: the first of kungorelseid, kungorelseId that
\* holds a non-empty string
IdOfEntry(e) ==
    IF e.kungorelseid.t = "string" /\ e.kungorelseid.s # <<>> THEN e.kungorelseid.s
    ELSE IF e.kungorelseId.t = "string" THEN e.kungorelseId.s
    ELSE <<>>

\* kw occurs in s, in any letter case
OccursIgnoringCase(s, kw) ==
    \E i \in 1..(Len(s) - Len(kw) + 1) :
        \A k \in 1..Len(kw) : toLowerCaseChar(s[i + k - 1]) = kw[k]

HasKeyword(e) ==
    OccursIgnoringCase(NameOfEntry(e), KW_FORENING)
        \/ OccursIgnoringCase(NameOfEntry(e), KW_HOLDING)

\* trim, uppercase, "/" to "-"
NormalizedId(e) ==
    LET t == trim(IdOfEntry(e))
    IN  replaceFirst([k \in 1..Len(t) |-> toUpperCaseChar(t[k])], "/", "-")

\* whitespace stripped, digits stripped, lowercased
NormalizedName(e) ==
    LET t == SelectSeq(NameOfEntry(e), LAMBDA c : ~IsSpace(c) /\ c \notin Digits)
    IN  [k \in 1..Len(t) |-> toLowerCaseChar(t[k])]

\* C11: sanitizeCompanyList applied to its own output returns that output.
C11_Idempotent ==
    sanAgain # NotRun => sanAgain = sanCleaned

\* C11 witness: the sanitizer has run twice on a list of which the first pass
\* dropped an entry and kept at least two.
C11_Witness ==
    /\ sanAgain # NotRun
    /\ sanItems.t = "array"
    /\ Len(sanCleaned.items) >= 2
    /\ Len(sanCleaned.items) < Len(sanItems.items)

\* C12: an entry whose name (under namn, company_name, companyName or title)
\* contains förening or holding in any letter case is not in the output, and
\* an entry without keyword in its name that is not in the output has the
\* normalized id or the normalized name of an earlier entry that is.
C12_ExclusionByKeyword ==
    Sanitized =>
        \A i \in 1..Len(sanItems.items) :
            LET e == sanItems.items[i] IN
            e.t = "object" =>
               /\ HasKeyword(e) => ~HasRef(sanCleaned.items, i)
               /\ (~HasKeyword(e) /\ ~HasRef(sanCleaned.items, i)) =>
                     \E j \in 1..(i - 1) :
                        /\ sanItems.items[j].t = "object"
                        /\ HasRef(sanCleaned.items, j)
                        /\ \/ /\ NormalizedId(e) # <<>>
                              /\ NormalizedId(e) = NormalizedId(sanItems.items[j])
                           \/ /\ NormalizedName(e) # <<>>
                              /\ NormalizedName(e) = NormalizedName(sanItems.items[j])

\* C12 witness: of the list 'Exempel Holding AB', 'FÖRENING X' (under
\* company_name), 'Exempel Teknik AB' only the last is kept.
C12_Witness ==
    /\ Sanitized
    /\ Len(sanItems.items) = 3
    /\ \A k \in 1..3 : sanItems.items[k].t = "object"
    /\ NameOfEntry(sanItems.items[1]) = S_NAMN_B
    /\ NameOfEntry(sanItems.items[2]) = S_NAMN_FOR
    /\ NameOfEntry(sanItems.items[3]) = S_NAMN_A
    /\ Len(sanCleaned.items) = 1
    /\ sanCleaned.items[1].ref = 3

\* C13 as claimed: an entry with an identifier is dropped when an entry
\* occurring earlier in the incoming list has the same normalized identifier.
C13_DropAfterAnyEarlierId ==
    Sanitized =>
        \A i \in 1..Len(sanItems.items) : \A j \in 1..(i - 1) :
            (/\ sanItems.items[i].t = "object"
             /\ sanItems.items[j].t = "object"
             /\ NormalizedId(sanItems.items[i]) # <<>>
             /\ NormalizedId(sanItems.items[i]) = NormalizedId(sanItems.items[j]))
            => ~HasRef(sanCleaned.items, i)

\* C13 amended: an entry with an identifier is dropped when an earlier entry of
\* the incoming list that the sanitizer kept has the same normalized identifier.
C13_DropAfterKeptEarlierId ==
    Sanitized =>
        \A i \in 1..Len(sanItems.items) : \A j \in 1..(i - 1) :
            (/\ sanItems.items[i].t = "object"
             /\ sanItems.items[j].t = "object"
             /\ HasRef(sanCleaned.items, j)
             /\ NormalizedId(sanItems.items[i]) # <<>>
             /\ NormalizedId(sanItems.items[i]) = NormalizedId(sanItems.items[j]))
            => ~HasRef(sanCleaned.items, i)

\* C13 witness: of two entries with different names and the ids 'K1234-25' and
\* ' k1234/25 ' the first is kept and the second dropped.
C13_Witness ==
    /\ Sanitized
    /\ Len(sanItems.items) = 2
    /\ \A k \in 1..2 : sanItems.items[k].t = "object"
    /\ IdOfEntry(sanItems.items[1]) = S_ID_1234
    /\ IdOfEntry(sanItems.items[2]) = S_ID_1234_LC
    /\ NormalizedName(sanItems.items[1]) # NormalizedName(sanItems.items[2])
    /\ Len(sanCleaned.items) = 1
    /\ sanCleaned.items[1].ref = 1

\* C14 as claimed: an entry with a name is dropped when an entry occurring
\* earlier in the incoming list has the same normalized name.
C14_DropAfterAnyEarlierName ==
    Sanitized =>
        \A i \in 1..Len(sanItems.items) : \A j \in 1..(i - 1) :
            (/\ sanItems.items[i].t = "object"
             /\ sanItems.items[j].t = "object"
             /\ NormalizedName(sanItems.items[i]) # <<>>
             /\ NormalizedName(sanItems.items[i]) = NormalizedName(sanItems.items[j]))
            => ~HasRef(sanCleaned.items, i)

\* C14 amended: an entry with a name is dropped when an earlier entry of the
\* incoming list that the sanitizer kept has the same normalized name.
C14_DropAfterKeptEarlierName ==
    Sanitized =>
        \A i \in 1..Len(sanItems.items) : \A j \in 1..(i - 1) :
            (/\ sanItems.items[i].t = "object"
             /\ sanItems.items[j].t = "object"
             /\ HasRef(sanCleaned.items, j)
             /\ NormalizedName(sanItems.items[i]) # <<>>
             /\ NormalizedName(sanItems.items[i]) = NormalizedName(sanItems.items[j]))
            => ~HasRef(sanCleaned.items, i)

\* C14 witness: of 'Exempel Teknik AB' and 'exempel  teknik2 ab', with
\* different ids, the first is kept and the second dropped.
C14_Witness ==
    /\ Sanitized
    /\ Len(sanItems.items) = 2
    /\ \A k \in 1..2 : sanItems.items[k].t = "object"
    /\ NameOfEntry(sanItems.items[1]) = S_NAMN_A
    /\ NameOfEntry(sanItems.items[2]) = S_NAMN_DUP
    /\ NormalizedId(sanItems.items[1]) # NormalizedId(sanItems.items[2])
    /\ Len(sanCleaned.items) = 1
    /\ sanCleaned.items[1].ref = 1

\* C15: the output is a subsequence of the input: every entry of the output is
\* an entry of the input, unmodified, and the entries are in the input's order.
C15_OutputIsSubsequence ==
    Sanitized =>
        \A k \in 1..Len(sanCleaned.items) :
            /\ sanCleaned.items[k].ref \in 1..Len(sanItems.items)
            /\ sanCleaned.items[k] = sanItems.items[sanCleaned.items[k].ref]
            /\ k > 1 => sanCleaned.items[k - 1].ref < sanCleaned.items[k].ref

\* C15 witness: the first and the third of three entries are kept, the second
\* is dropped.
C15_Witness ==
    /\ Sanitized
    /\ Len(sanItems.items) = 3
    /\ Len(sanCleaned.items) = 2
    /\ sanCleaned.items[1].ref = 1
    /\ sanCleaned.items[2].ref = 3

\* ---- the readiness floor and rejections of the capture check ----

\* the step is the capture timer t firing on the document d while the tab shows
\* the detail page of t's own announcement
CheckStepOn(t, d) ==
    /\ t.kind = "captureCheck"
    /\ href \in KungorelsePageUrls
    /\ NormalizedIdOf[href] = t.id
    /\ CaptureCheck(t, d)

ForwardsRecord(t, d) ==
    forwarded' = Append(forwarded, KungorelseMsg(href, t.id, d.textLen).payload)

\* C16 as stated: a capture check on a detail page whose text is 300 characters
\* long forwards no record, and a capture check on the same page with 600
\* characters of text forwards the record
C16_FloorAlone ==
    [][\A t \in TimerSet(timers), d \in Doms :
          CheckStepOn(t, d) =>
              /\ d.textLen = 300 => forwarded' = forwarded
              /\ d.textLen = 600 => ForwardsRecord(t, d)]_vars

\* C16: a capture check on a detail page whose text is 300 characters long
\* forwards no record; a capture check on the same page with 600 characters of
\* text and at most two links to announcements forwards the record
C16_FloorAndFewLinks ==
    [][\A t \in TimerSet(timers), d \in Doms :
          CheckStepOn(t, d) =>
              /\ d.textLen = 300 => forwarded' = forwarded
              /\ (d.textLen = 600 /\ d.linkCount <= LINK_MAX) => ForwardsRecord(t, d)]_vars

\* a check of an id that had been rejected found 600 characters and forwarded
\* the record of the page
C16_Witness ==
    /\ lastCheck.outcome = "capture"
    /\ Len(forwarded) > 0
    /\ forwarded[Len(forwarded)].kungorelseId = lastCheck.id
    /\ forwarded[Len(forwarded)].textLen = 600
    /\ forwarded[Len(forwarded)].url \in KungorelsePageUrls
    /\ NormalizedIdOf[forwarded[Len(forwarded)].url] = lastCheck.id

\* ---- after a rejection ----

\* a capture check that rejects its id leaves it in neither set and forwards
\* nothing
RejectionLeavesNothing ==
    \A t \in TimerSet(timers), d \in Doms :
        (/\ t.kind = "captureCheck"
         /\ CaptureCheck(t, d)
         /\ captureCheckOutcome(href, t.id, d.textLen, d.linkCount) \in Rejections)
        => /\ t.id \notin pendingCaptures'
           /\ t.id \notin capturedKungorelseIds'
           /\ forwarded' = forwarded

\* the step forwards the record of an id that a capture check has rejected since
\* the last navigation event
CapturedWithoutNavigation ==
    /\ Len(forwarded') = Len(forwarded) + 1
    /\ forwarded'[Len(forwarded')].kungorelseId \in rejectedHere

\* the step queues a capture check for an id that a capture check has rejected
\* since the last navigation event, and is itself no navigation event
QueuedWithoutNavigation(id) ==
    /\ id \in rejectedHere
    /\ id \in pendingCaptures' \ pendingCaptures
    /\ lastUrl' = lastUrl

\* the step is a post-click timer of the alias handling firing (content.js:204,
\* content.js:248)
PostClickTimerFires ==
    \E t \in TimerSet(timers) : AfterClickInitial(t) \/ AfterClickPoll(t)

\* the poller finds the tab on the detail page of an id that is neither pending
\* nor captured, and queues a capture check for it
ReentryQueuesCheck ==
    (/\ lastUrl' # lastUrl
     /\ href \in KungorelsePageUrls
     /\ NormalizedIdOf[href] \notin capturedKungorelseIds \cup pendingCaptures)
    => /\ NormalizedIdOf[href] \in pendingCaptures'
       /\ timers' = Append(timers, Task("captureCheck", "none", "none",
                                        NormalizedIdOf[href], navCount))

\* C17 as stated: after a capture check rejects id X, X is in neither pending
\* nor captured and nothing was forwarded; no capture of X happens without a
\* further navigation event; a later navigation event that re-enters X's detail
\* page queues a new capture check for X
C17_RetryOnlyByNavigation ==
    [][/\ RejectionLeavesNothing
       /\ ~CapturedWithoutNavigation
       /\ ReentryQueuesCheck]_vars

\* C17: after a capture check rejects id X, X is in neither pending nor captured
\* and nothing was forwarded; without a further navigation event a capture
\* check for X is queued again only by a post-click timer of the alias handling;
\* a later navigation event that re-enters X's detail page queues a new capture
\* check for X
C17_RetryByNavigationOrPostClick ==
    [][/\ RejectionLeavesNothing
       /\ \A id \in rejectedHere : QueuedWithoutNavigation(id) => PostClickTimerFires
       /\ ReentryQueuesCheck]_vars

\* a rejected id is pending again although no navigation event has happened
C17_Witness ==
    \E id \in rejectedHere :
        /\ id \in pendingCaptures
        /\ id \notin capturedKungorelseIds
        /\ href \in KungorelsePageUrls
        /\ NormalizedIdOf[href] = id

\* ---- entering a detail page again ----

IsCaptureCheck(t) == t.kind = "captureCheck"

\* the step runs the entry transition on a detail page: the poller finds the URL
\* new, or the initial check or a post-click timer fires
EntersDetail ==
    /\ href \in KungorelsePageUrls
    /\ \/ lastUrl' # lastUrl
       \/ \E t \in TimerSet(timers) :
              InitialCheck(t) \/ AfterClickInitial(t) \/ AfterClickPoll(t)

\* C18: entering the detail page of an id that is already captured or pending
\* changes neither set, schedules no capture-check timer and forwards nothing
C18_ReentryIsNoOp ==
    [][(EntersDetail /\ NormalizedIdOf[href] \in capturedKungorelseIds \cup pendingCaptures)
          => /\ pendingCaptures' = pendingCaptures
             /\ capturedKungorelseIds' = capturedKungorelseIds
             /\ forwarded' = forwarded
             /\ SelectSeq(timers', IsCaptureCheck) = SelectSeq(timers, IsCaptureCheck)]_vars

\* the tab is back on the detail page of an id captured before it came back, and
\* the entry transition has logged the skip
C18_Witness ==
    \E id \in duplicateSkips :
        /\ id \in capturedKungorelseIds
        /\ NormalizedIdOf[href] = id
        /\ lastCheck = NoCheck
        /\ ForwardedFor(id) = 1

\* ---- the alias handler ----

\* C19: whatever the order of the initial check, poll ticks, observer callbacks
\* and dwell delays, the alias handler calls link.click() at most once during one
\* stay on an alias URL
C19_OneClickPerAliasStay ==
    [][\A t \in TimerSet(timers), to \in Urls :
          (t.kind = "click" /\ isEnskildPage /\ ClickLink(t, to)) => aliasClicks = 0]_vars

\* ---- the URL poller ----

\* C20: on whatever page the content script was loaded, when the tab's URL has
\* changed to a detail page whose id is neither pending nor captured and stays
\* there, the poller sees the change and queues a capture check for the id
C20_DetailUrlChangeDetected ==
    \A u \in KungorelsePageUrls :
        (/\ href = u
         /\ lastUrl # u
         /\ NormalizedIdOf[u] \notin capturedKungorelseIds \cup pendingCaptures)
        ~> (href # u \/ NormalizedIdOf[u] \in capturedKungorelseIds \cup pendingCaptures)

\* ---- the Bridge listener ----

\* the step is the listener of content.js running for the message event at the
\* head of the window's queue
ListenerRuns == bridge # <<>> /\ bridge' = Tail(bridge)

\* the message comes from the window itself, carries the marker, has the type
\* KV_SAVE_JSON and has a payload
IsBridgeMessage(m) ==
    /\ m.source = "window"
    /\ m.kv = TRUE
    /\ m.type = "KV_SAVE_JSON"
    /\ m.payload # NoPayload

\* C21: the orchestrator sends the Relay a message for a window message only if
\* that message comes from the same window, carries the marker, has type
\* KV_SAVE_JSON and a payload; for any other window message the Relay gets
\* nothing and the state of the orchestrator does not change
C21_OnlyMarkedMessagesForwarded ==
    [][ListenerRuns =>
          /\ relayInbox' # relayInbox => IsBridgeMessage(Head(bridge))
          /\ ~IsBridgeMessage(Head(bridge)) =>
                (relayInbox' = relayInbox /\ orchVars' = orchVars)]_vars

\* the listener has run for a window message that is not the Bridge's, after a
\* capture of the Hook Layer was sent on, and the Relay has got nothing for it
C21_Witness ==
    /\ lastEvent = "ignored"
    /\ posted # <<>>
    /\ bridge = <<>>
    /\ relayInbox = <<>>
    /\ httpRequests = <<>>

\* ---- delivery to the Collector ----

\* the step is the Relay's listener running for the message at the head of its
\* inbox
RelayHandles == relayInbox # <<>> /\ relayInbox' = Tail(relayInbox)

\* C22: for each message the Relay handles it issues at most one HTTP request;
\* when a request fails no request is issued for its message again and no
\* message is queued; a message handled after a failure gets its request as
\* one handled before: a CaptureRecord of a detail page one POST
\* /save_kungorelse with the record, a call list one POST /save
C22_OneRequestNoRetry ==
    [][/\ RelayHandles => Len(httpRequests') <= Len(httpRequests) + 1
       /\ bgFailed' # bgFailed =>
             /\ httpRequests # <<>>
             /\ httpRequests' = Tail(httpRequests)
             /\ relayInbox' = relayInbox
       /\ (RelayHandles /\ bgFailed > 0 /\ Head(relayInbox).payload # NoPayload) =>
             /\ (/\ Head(relayInbox).type = "KV_SAVE_KUNGORELSE"
                 /\ Head(relayInbox).payload.url \notin AliasPatternUrls)
                => httpRequests' = Append(httpRequests,
                       [endpoint |-> "/save_kungorelse", body |-> Head(relayInbox).payload])
             /\ Head(relayInbox).type = "KV_SAVE_JSON"
                => /\ Len(httpRequests') = Len(httpRequests) + 1
                   /\ httpRequests'[Len(httpRequests')].endpoint = "/save"]_vars

\* as many requests have failed as the Relay is followed through at once, and
\* the request of a message handled after a failure is under way
C22_Witness ==
    /\ bgFailed = MaxRelay
    /\ httpRequests # <<>>
    /\ relayInbox = <<>>

\* ---- the Sanitizer across messages ----

\* the list of a payload: the response body, or its data property; <<>> when
\* the payload holds no list
ListOfPayload(payload) ==
    IF payload.data.t = "array" THEN payload.data.items
    ELSE IF payload.data.t = "object" /\ payload.data.data.t = "array"
    THEN payload.data.data.items
    ELSE <<>>

\* what the sanitizer makes of the list xs when it starts with nothing seen
SanitizedAlone(xs) == sanitizeFrom(xs, 1, {}, {}, <<>>)

IsHandlerTask(t) == t.kind \in {"dwell", "click"}

\* the step is a link search of the alias handler, on the document d of an alias
\* page, that finds no link
SearchFindsNoLink(t, d) ==
    /\ t.kind = "dwell"
    /\ href \in AliasPatternUrls
    /\ d.linkCount = 0
    /\ DwellDone(t, d)

\* the step is the callback a caller chained on the alias handler, running on an
\* alias page
PostHandlerTimerOnAlias ==
    /\ href \in AliasPatternUrls
    /\ PostClickTimerFires

\* C24: a link search on an alias page that finds no link clicks nothing, queues
\* and forwards no capture, leaves the tab on the alias URL and starts no dwell
\* and no search again: the flag stays set and the only timer it may leave is
\* the caller's, which on the alias URL queues and forwards nothing either
C24_NoLinkNoClickNoRetry ==
    [][/\ \A t \in TimerSet(timers), d \in Doms :
             SearchFindsNoLink(t, d) =>
                /\ aliasClicks' = aliasClicks
                /\ href' = href
                /\ pendingCaptures' = pendingCaptures
                /\ forwarded' = forwarded
                /\ enskildHandled' = enskildHandled
                /\ SelectSeq(timers', IsHandlerTask)
                      = SelectSeq(Without(timers, t), IsHandlerTask)
                /\ SelectSeq(timers', IsCaptureCheck) = SelectSeq(timers, IsCaptureCheck)
       /\ PostHandlerTimerOnAlias =>
                /\ pendingCaptures' = pendingCaptures
                /\ forwarded' = forwarded
                /\ SelectSeq(timers', IsHandlerTask) = SelectSeq(timers, IsHandlerTask)
                /\ SelectSeq(timers', IsCaptureCheck) = SelectSeq(timers, IsCaptureCheck)]_vars

\* the poller started the handler on the alias page, its search found no link,
\* nothing was clicked, and the tab is still there with the flag set, no handler
\* task left and the poller's 2000 ms timer outstanding
C24_Witness ==
    /\ href = "alias_K100"
    /\ lastUrl = href
    /\ enskildHandled
    /\ aliasClicks = 0
    /\ pendingCaptures = {}
    /\ SelectSeq(timers, IsHandlerTask) = <<>>
    /\ \E t \in TimerSet(timers) : t.kind = "afterClickPoll" /\ t.nav = navCount

\* ---- the record and the page it was queued for ----

\* C25: the id of every forwarded CaptureRecord is the canonical id derived from
\* the record's own url, also when the tab went from one detail page to another
\* during the capture delay
C25_RecordIdMatchesUrl ==
    \A i \in 1..Len(forwarded) :
        forwarded[i].kungorelseId = NormalizedIdOf[forwarded[i].url]

\* ---- the capture check away from the detail page ----

\* how many capture-check timers are outstanding
CaptureTimers(T) == Len(SelectSeq(T, IsCaptureCheck))

\* C26: when the capture-check timer of id X fires while the tab's URL is not
\* classified KungorelseDetail, no record is forwarded, X leaves pending and
\* nothing is added to captured; a capture-check timer goes away only by firing
C26_CheckOffDetailDropsCapture ==
    [][/\ \A t \in TimerSet(timers), d \in Doms :
             (/\ t.kind = "captureCheck"
              /\ href \notin KungorelsePageUrls
              /\ CaptureCheck(t, d))
             => /\ forwarded' = forwarded
                /\ t.id \notin pendingCaptures'
                /\ capturedKungorelseIds' = capturedKungorelseIds
       /\ CaptureTimers(timers') < CaptureTimers(timers) =>
             \E t \in TimerSet(timers), d \in Doms : CaptureCheck(t, d)]_vars

\* the capture check of an id ran with 600 characters of text on the listing
\* page, the tab having left the detail page, and dropped the capture
C26_Witness ==
    /\ href = "listing"
    /\ lastCheck.outcome = "pageChanged"
    /\ lastCheck.id # <<>>
    /\ lastCheck.id \notin pendingCaptures \cup capturedKungorelseIds
    /\ forwarded = <<>>

\* ---- the three gates ----

\* C27: each gate alone rejects every URL matching the alias-page pattern: on
\* such a URL no step queues a capture (the check on entering capture), every
\* capture check ends at the re-verification of the URL with "Page changed"
\* (so none goes on to be stopped by the check before forwarding), and no step
\* forwards a record
C27_EachGateRejectsAlias ==
    [][(href \in AliasPatternUrls) =>
          (/\ pendingCaptures' \subseteq pendingCaptures
           /\ \A t \in TimerSet(timers), d \in Doms :
                 (t.kind = "captureCheck" /\ CaptureCheck(t, d))
                 => lastCheck'.outcome = "pageChanged"
           /\ forwarded' = forwarded)]_vars

\* ---- the click and the page it is made on ----

\* C28: the alias handler calls link.click() only while the tab's URL is
\* classified EnskildAlias: when the tab left the alias page during the dwell
\* delay, no link of the page shown then is clicked
C28_ClickOnlyOnAliasPage ==
    [][\A t \in TimerSet(timers), to \in Urls :
          (t.kind = "click" /\ ClickLink(t, to)) => href \in EnskildPageUrls]_vars

\* ---- a link that appears late ----

\* the tab is on an alias page where the observer is installed and the poller
\* has seen the URL; the handler has run for this page (the flag is set), none
\* of its tasks is left and nothing was clicked: its link search found no link
SearchedWithoutLink ==
    /\ IS_KUNGORELSE \/ IS_ENSKILD
    /\ href \in EnskildReUrls
    /\ href = lastUrl
    /\ enskildHandled
    /\ SelectSeq(timers, IsHandlerTask) = <<>>
    /\ aliasClicks = 0

\* C29: on an alias page whose first link search found no link, when the page
\* then changes its document without changing its URL (the observer keeps
\* firing), a link is eventually clicked, or the tab has left the page
C29_LateLinkClicked ==
    SearchedWithoutLink ~> (aliasClicks > 0 \/ ~SearchedWithoutLink)

\* ---- the ignore-list ----

\* C30: whatever open(), send() and fetch calls came before, the response to a
\* fetch or XHR request whose URL is on the ignore-list produces no
\* InterceptedCall
C30_IgnoredUrlNeverPosted ==
    (call.api # "none" /\ call.url \in IgnoredUrls) => posted = <<>>

\* ---- the canonical id of a detail URL ----

\* the identifier of a detail URL as written: the path segment that follows
\* /poit-app/kungorelse/
IdSegment(s) ==
    SubSeq(s, Len(S_RE_KUNG_PFX), indexOfAny(s, {"/", "?", "#"}, Len(S_RE_KUNG_PFX)) - 1)

\* the canonical id of the specification: trimmed, upper case, "/" replaced by "-"
CanonicalId(s) == replaceFirst(toUpperCase(trim(IdSegment(s))), "/", "-")

\* C31: the id the orchestrator derives from a URL classified KungorelseDetail
\* is the canonical id of the URL, never null, the same for URLs that differ in
\* the letter case of the identifier; and entering such a page with an id that
\* is neither captured nor pending queues a capture for that id
C31_DetailUrlHasCanonicalId ==
    [][/\ (href \in KungorelsePageUrls) =>
             /\ NormalizedIdOf[href] # <<>>
             /\ NormalizedIdOf[href] = CanonicalId(UrlText(href))
       /\ (/\ EntersDetail
           /\ CanonicalId(UrlText(href)) \notin capturedKungorelseIds \cup pendingCaptures)
          => pendingCaptures' = pendingCaptures \cup {CanonicalId(UrlText(href))}]_vars

\* ---- the link-list rule of the capture check ----

\* C32: a capture check on a detail page that holds more than 2 links to
\* announcements and fewer than 1000 characters of text forwards nothing and
\* leaves its id out of pending, whether or not the text reaches 500 characters;
\* a check that finds at least 500 characters and not that combination forwards
\* the record and marks the id captured
C32_LinkListRule ==
    [][\A t \in TimerSet(timers), d \in Doms \cup EdgeDoms :
          (/\ t.kind = "captureCheck"
           /\ href \in KungorelsePageUrls
           /\ CaptureCheck(t, d)) =>
              /\ (d.linkCount > 2 /\ d.textLen < 1000) =>
                     /\ forwarded' = forwarded
                     /\ t.id \notin pendingCaptures'
                     /\ t.id \notin capturedKungorelseIds'
              /\ (d.textLen >= 500 /\ ~(d.linkCount > 2 /\ d.textLen < 1000)) =>
                     /\ ForwardsRecord(t, d)
                     /\ t.id \in capturedKungorelseIds'
                     /\ t.id \notin pendingCaptures']_vars

\* a check on a detail page found enough text and too many links: it rejected
\* the page as a list of links, and nothing has been forwarded
C32_Witness ==
    /\ href \in KungorelsePageUrls
    /\ lastCheck.outcome = "linkPage"
    /\ lastCheck.id = NormalizedIdOf[href]
    /\ lastCheck.id \notin pendingCaptures \cup capturedKungorelseIds
    /\ forwarded = <<>>

\* ---- pending ids and their capture timers ----

\* the outstanding capture timers of the id
CaptureTimersOf(id) ==
    {i \in DOMAIN timers : timers[i].kind = "captureCheck" /\ timers[i].id = id}

\* C33: every id in pending has exactly one outstanding capture timer, every
\* outstanding capture timer is the timer of an id in pending, no id in pending
\* is in captured, and no capture check has found its id in captured
C33_OneTimerPerPendingId ==
    /\ \A id \in pendingCaptures : Cardinality(CaptureTimersOf(id)) = 1
    /\ \A i \in DOMAIN timers :
           timers[i].kind = "captureCheck" => timers[i].id \in pendingCaptures
    /\ pendingCaptures \cap capturedKungorelseIds = {}
    /\ lastCheck.outcome # "alreadyCaptured"

\* one id has been captured while another is pending with its timer outstanding
C33_Witness ==
    /\ capturedKungorelseIds # {}
    /\ Cardinality(pendingCaptures) = 1
    /\ CaptureTimers(timers) = 1
    /\ lastCheck.outcome = "capture"

\* ---- pending ids are released ----

\* the ids of the detail pages
DetailIds == {NormalizedIdOf[u] : u \in KungorelsePageUrls} \ {<<>>}

\* C34: with every timer firing in time, an id in pending is eventually out of
\* pending; and the capture check of an id, whatever it decides, leaves the id
\* out of pending
C34_PendingIsReleased ==
    /\ \A id \in DetailIds : (id \in pendingCaptures) ~> (id \notin pendingCaptures)
    /\ [][\A t \in TimerSet(timers), d \in Doms :
              (t.kind = "captureCheck" /\ CaptureCheck(t, d)) =>
                  t.id \notin pendingCaptures']_vars

\* the check of an id found the tab off the detail pages and dropped the id,
\* while the other id is still pending
C34_Witness ==
    /\ lastCheck.outcome = "pageChanged"
    /\ lastCheck.id \notin pendingCaptures \cup capturedKungorelseIds
    /\ pendingCaptures # {}

\* ---- the DOM-change observer ----

\* C35: a firing of the DOM-change observer leaves captured and pending as
\* they are, forwards nothing and starts no capture timer; the one thing it
\* may start is the alias handler, with no capture chained on it, and it does
\* so on an alias page only
C35_ObserverOnlyHandlesAlias ==
    [][ObserverCallback =>
          /\ UNCHANGED <<capturedKungorelseIds, pendingCaptures, forwarded, relayInbox>>
          /\ \/ timers' = timers
             \/ /\ href \in AliasPatternUrls
                /\ timers' = Append(timers, Task("dwell", "none", "none", <<>>, navCount))]_vars

\* the tab was taken to an alias page and the observer, firing before the
\* poller's next tick, started the alias handler
C35_Witness ==
    /\ href \in AliasPatternUrls
    /\ href # lastUrl
    /\ enskildHandled
    /\ \E i \in DOMAIN timers :
           timers[i] = Task("dwell", "none", "none", <<>>, navCount) /\ navCount > 0

\* ---- entries without an id, without a name ----

\* an earlier entry that was kept has the non-empty normalized id of e
KeptEarlierWithId(i, e) ==
    \E j \in 1..(i - 1) :
        /\ sanItems.items[j].t = "object"
        /\ HasRef(sanCleaned.items, j)
        /\ NormalizedId(e) # <<>>
        /\ NormalizedId(sanItems.items[j]) = NormalizedId(e)

\* an earlier entry that was kept has the non-empty normalized name of e
KeptEarlierWithName(i, e) ==
    \E j \in 1..(i - 1) :
        /\ sanItems.items[j].t = "object"
        /\ HasRef(sanCleaned.items, j)
        /\ NormalizedName(e) # <<>>
        /\ NormalizedName(sanItems.items[j]) = NormalizedName(e)

\* C36: an entry without an id that is dropped has a keyword in its name or the
\* name of an earlier kept entry; an entry without a name that is dropped has
\* the id of an earlier kept entry; an entry with neither, and a non-object
\* entry, is in the output; an entry with a keyword in its name and no id is
\* not in the output
C36_MissingKeysAreNotDeduplicated ==
    Sanitized =>
        \A i \in 1..Len(sanItems.items) :
            LET e == sanItems.items[i] IN
            IF e.t # "object" THEN HasRef(sanCleaned.items, i)
            ELSE /\ (IdOfEntry(e) = <<>> /\ ~HasRef(sanCleaned.items, i)) =>
                        HasKeyword(e) \/ KeptEarlierWithName(i, e)
                 /\ (NameOfEntry(e) = <<>> /\ ~HasRef(sanCleaned.items, i)) =>
                        KeptEarlierWithId(i, e)
                 /\ (IdOfEntry(e) = <<>> /\ NameOfEntry(e) = <<>>) =>
                        HasRef(sanCleaned.items, i)
                 /\ (IdOfEntry(e) = <<>> /\ HasKeyword(e)) =>
                        ~HasRef(sanCleaned.items, i)

\* two entries with neither name nor id were kept, both, after an entry with
\* an id and no name
C36_Witness ==
    /\ Sanitized
    /\ Len(sanItems.items) = 3
    /\ \A k \in 1..3 : sanItems.items[k].t = "object" /\ NameOfEntry(sanItems.items[k]) = <<>>
    /\ IdOfEntry(sanItems.items[1]) # <<>>
    /\ IdOfEntry(sanItems.items[2]) = <<>>
    /\ IdOfEntry(sanItems.items[3]) = <<>>
    /\ Len(sanCleaned.items) = 3

\* ---- the output of the sanitizer ----

\* the objects among the entries of the sanitizer's output
KeptObjects == {k \in 1..Len(sanCleaned.items) : sanCleaned.items[k].t = "object"}

\* C37: in the output of the sanitizer no two objects have the same non-empty
\* normalized id, no two have the same non-empty normalized name, and none
\* has a name that contains a keyword
C37_OutputIsDeduplicated ==
    Sanitized =>
        /\ \A k \in KeptObjects : ~HasKeyword(sanCleaned.items[k])
        /\ \A k, m \in KeptObjects :
               k < m =>
                  /\ NormalizedId(sanCleaned.items[k]) # <<>> =>
                         NormalizedId(sanCleaned.items[k]) # NormalizedId(sanCleaned.items[m])
                  /\ NormalizedName(sanCleaned.items[k]) # <<>> =>
                         NormalizedName(sanCleaned.items[k]) # NormalizedName(sanCleaned.items[m])

\* of three objects with ids and names the sanitizer kept the first and the
\* third, which differ in both
C37_Witness ==
    /\ Sanitized
    /\ Len(sanItems.items) = 3
    /\ Len(sanCleaned.items) = 2
    /\ KeptObjects = {1, 2}
    /\ sanCleaned.items[2].ref = 3
    /\ \A k \in KeptObjects :
           /\ NormalizedId(sanCleaned.items[k]) # <<>>
           /\ NormalizedName(sanCleaned.items[k]) # <<>>

\* ---- where capture messages come from ----

\* the step sends the Relay a message of type KV_SAVE_KUNGORELSE
SendsCaptureMessage ==
    /\ Len(relayInbox') > Len(relayInbox)
    /\ relayInbox'[Len(relayInbox')].type = "KV_SAVE_KUNGORELSE"

\* C38: a step that sends the Relay a KV_SAVE_KUNGORELSE message is a capture
\* check of the orchestrator that accepted, the message carrying the id of that
\* check; the listener of the Bridge, whatever window message it runs for,
\* sends none
C38_CaptureMessagesComeFromChecks ==
    [][/\ ListenerRuns => ~SendsCaptureMessage
       /\ SendsCaptureMessage =>
             /\ bridge' = bridge
             /\ lastCheck'.outcome = "capture"
             /\ relayInbox' = Append(relayInbox,
                                     KungorelseMsg(href, lastCheck'.id, forwarded'[Len(forwarded')].textLen))
             /\ \E t \in TimerSet(timers), d \in Doms :
                    t.id = lastCheck'.id /\ CaptureCheck(t, d)]_vars

\* the listener has ignored a made-up capture message of the page, in a tab
\* whose orchestrator has forwarded a capture of its own
C38_Witness ==
    /\ lastEvent = "ignored"
    /\ forwarded # <<>>
    /\ bridge = <<>>
    /\ relayInbox = <<>>

\* ---- two tabs ----

\* how many CaptureRecords the second tab has forwarded for id
PeerForwardedFor(id) ==
    Cardinality({i \in 1..Len(peer.forwarded) : peer.forwarded[i].kungorelseId = id})

\* the step is the initial check of the second tab
PeerEnters ==
    /\ peer.timers # NoTimers
    /\ Head(peer.timers).kind = "initialCheck"
    /\ peer'.timers # peer.timers

\* C39: a step of one tab leaves the captured and pending sets of the other as
\* they are; the second tab entering the detail page of an id that is in
\* neither of its own sets queues the capture, whatever the first tab holds;
\* each tab forwards at most one record for an id; and the Relay sends the
\* Collector a request for every capture message it handles whose URL is not an
\* alias URL, whether or not it has handled one for the same id
C39_DedupIsPerTab ==
    /\ [](\A id \in DetailIds : ForwardedFor(id) <= 1 /\ PeerForwardedFor(id) <= 1)
    /\ [][/\ (peer' # peer) =>
               UNCHANGED <<capturedKungorelseIds, pendingCaptures>>
          /\ (<<capturedKungorelseIds, pendingCaptures>>' # <<capturedKungorelseIds, pendingCaptures>>) =>
               peer' = peer
          /\ (/\ PeerEnters
              /\ NormalizedIdOf[peer.href] \notin peer.capturedKungorelseIds \cup peer.pendingCaptures) =>
               peer'.pendingCaptures = peer.pendingCaptures \cup {NormalizedIdOf[peer.href]}
          /\ (/\ RelayHandles
              /\ Head(relayInbox).type = "KV_SAVE_KUNGORELSE"
              /\ Head(relayInbox).payload.url \notin AliasPatternUrls) =>
               httpRequests' = Append(httpRequests, [endpoint |-> "/save_kungorelse",
                                                     body |-> Head(relayInbox).payload])]_vars

\* both tabs have forwarded the record of the same id, and the Relay has both
\* requests under way
C39_Witness ==
    \E id \in DetailIds :
        /\ ForwardedFor(id) = 1
        /\ PeerForwardedFor(id) = 1
        /\ id \in capturedKungorelseIds \cap peer.capturedKungorelseIds
        /\ Len(httpRequests) = 2
        /\ \A i \in 1..2 :
               /\ httpRequests[i].endpoint = "/save_kungorelse"
               /\ httpRequests[i].body.kungorelseId = id

====
